---------------------------- MODULE Spec2Model ----------------------------
(***************************************************************************)
(* Verification model of the epstein-files-browser repository:             *)
(*   - the listing endpoint of the worker (src/worker/index.ts),           *)
(*   - LoadQueue, the bounded thumbnail scheduler (src/app/page.tsx),      *)
(*   - the page cache (lib/cache), prefetchPdf and the FileModal viewer    *)
(*     (src/app/file-browser.tsx).                                         *)
(* Each specification of the module runs one part of the program and       *)
(* leaves the variables of the other parts unchanged.                      *)
(***************************************************************************)
EXTENDS Integers, Sequences, FiniteSets, Bags, TLC

VARIABLES
    bucket,      \* listing: set of keys held by the R2 bucket (fixed during a run)
    req,         \* listing: locals of the api/files handler in progress
    resp,        \* listing: last response produced
    sess,        \* listing: the paging session the client is in (history)
    lookup,      \* files-by-keys: locals of the api/files-by-keys handler and its response
    queue,       \* LoadQueue.queue: tasks added and not yet started, oldest first
    running,     \* LoadQueue.running
    tasks,       \* LoadQueue: what became of each task handed to add()
    docs,        \* viewer: per document, its page count and its manifest entry
    cache,       \* viewer: pdfPagesCache, a function from the cached keys to page lists
    prefetchingSet, \* viewer: keys with a prefetch in progress
    jobs,        \* viewer: the bag of render jobs suspended at an await
    view,        \* viewer: FileModal (open file, pages, loading, error, effect state)
    ev,          \* viewer: the job the last step ended, if any (history)
    home,        \* Home: the state of the component (filter, files, cursor, flags)
    filesCache,  \* Home: the module-level cache of the unfiltered listing
    fetches,     \* Home: the bag of listing requests in flight
    allFiles,    \* navigation: the file list the layout hands to FilesProvider
    browser,     \* navigation: FileBrowser (filters, sort mode, open file, last event)
    thumbnails,  \* lib/cache: thumbnailCache, a function from the cached keys to data URLs
    cacheOp,     \* lib/cache: the last call of a function of the module (history)
    listedDocs,  \* file page: the keys of the documents the listing holds
    filePage     \* file page: FilePage (route parameter, key presses, last event)

listVars == <<bucket, req, resp, sess>>
keysVars == <<lookup>>
queueVars == <<queue, running, tasks>>
viewerVars == <<docs, cache, prefetchingSet, jobs, view, ev>>
homeVars == <<home, filesCache, fetches>>
navVars == <<allFiles, browser>>
cacheVars == <<thumbnails, cacheOp>>
pageVars == <<listedDocs, filePage>>
vars == <<listVars, keysVars, queueVars, viewerVars, homeVars, navVars, cacheVars, pageVars>>

\* the absent key: a missing or empty cursor, an undefined bucket cursor
NoKey == <<>>

\* a JavaScript number as far as the handler needs it: an integer or NaN
Num(v) == [nan |-> FALSE, v |-> v]
NaN == [nan |-> TRUE, v |-> 0]

---------------------------------------------------------------------------
(* Strings.  A key is a tuple of one-character strings; Ord gives the code *)
(* unit of a character, so that the bucket's lexicographic order, prefix   *)
(* matching and the case-insensitive suffix test are computed, not assumed.*)

Ord ==
    ("." :> 46) @@ ("1" :> 49) @@ ("2" :> 50) @@ ("3" :> 51) @@
    ("A" :> 65) @@ ("B" :> 66) @@ ("D" :> 68) @@ ("F" :> 70) @@ ("P" :> 80) @@
    ("a" :> 97) @@ ("b" :> 98) @@ ("d" :> 100) @@ ("f" :> 102) @@ ("g" :> 103) @@ ("j" :> 106) @@ ("p" :> 112)

\* String.prototype.toLowerCase on one character
LowerChar(c) ==
    IF Ord[c] >= 65 /\ Ord[c] <= 90
    THEN CHOOSE d \in DOMAIN Ord : Ord[d] = Ord[c] + 32
    ELSE c

toLowerCase(s) == [i \in 1..Len(s) |-> LowerChar(s[i])]

endsWith(s, suffix) ==
    /\ Len(s) >= Len(suffix)
    /\ SubSeq(s, Len(s) - Len(suffix) + 1, Len(s)) = suffix

startsWith(s, p) ==
    /\ Len(s) >= Len(p)
    /\ SubSeq(s, 1, Len(p)) = p

\* lexicographic order of two keys by code unit (the bucket's listing order)
RECURSIVE KeyLess(_, _)
KeyLess(a, b) ==
    IF b = <<>> THEN FALSE
    ELSE IF a = <<>> THEN TRUE
    ELSE IF Ord[Head(a)] # Ord[Head(b)] THEN Ord[Head(a)] < Ord[Head(b)]
    ELSE KeyLess(Tail(a), Tail(b))

\* the keys of a set as a sequence in listing order
RECURSIVE InKeyOrder(_)
InKeyOrder(S) ==
    IF S = {} THEN <<>>
    ELSE LET m == CHOOSE k \in S : \A o \in S \ {k} : KeyLess(k, o)
         IN <<m>> \o InKeyOrder(S \ {m})

Take(s, n) == SubSeq(s, 1, IF n < Len(s) THEN n ELSE Len(s))

SeqRange(s) == {s[i] : i \in 1..Len(s)}

---------------------------------------------------------------------------
(* Inputs of the listing model *)

PdfSuffix == <<".", "p", "d", "f">>

AllKeys ==
    { <<"A", "1", ".", "p", "d", "f">>,
      <<"A", "2", ".", "j", "p", "g">>,
      <<"A", "3", ".", "P", "D", "F">>,
      <<"B", "1", ".", "j", "p", "g">>,
      <<"B", "2", ".", "p", "d", "f">>,
      <<"B", "3", ".", "p", "d", "f">> }

Prefixes == { <<>>, <<"A">>, <<"B">> }

\* values of the limit query parameter: absent, not a number, or an integer
MaxLimit == 3
RawLimits ==
    {[kind |-> "absent", v |-> 0], [kind |-> "text", v |-> 0]}
    \cup {[kind |-> "int", v |-> n] : n \in {0 - 1, 0, 1001} \cup (1..MaxLimit)}

\* largest number of objects the bucket hands out in one list call
BucketBatch == 2

\* the smallest bucket the model starts from
MinBucket == 4

---------------------------------------------------------------------------
(* JavaScript arithmetic used by the handler *)

LimitCap == 1000
DefaultLimit == 100
ListBatchLimit == 1000

\* parseInt(url.searchParams.get("limit") || "100")
ParseLimit(raw) ==
    IF raw.kind = "absent" THEN Num(DefaultLimit)
    ELSE IF raw.kind = "int" THEN Num(raw.v)
    ELSE NaN

\* Math.min(x, cap): NaN is contagious
MathMin(x, cap) == IF x.nan THEN NaN ELSE IF x.v < cap THEN x ELSE Num(cap)

\* n <= x and n > x for a length n and a possibly-NaN x (false on NaN)
JsLeq(n, x) == ~x.nan /\ n <= x.v
JsGt(n, x) == ~x.nan /\ n > x.v

\* Array.prototype.slice(0, x)
Slice0(s, x) ==
    IF x.nan THEN <<>>
    ELSE IF x.v < 0 THEN Take(s, IF Len(s) + x.v > 0 THEN Len(s) + x.v ELSE 0)
    ELSE Take(s, x.v)

---------------------------------------------------------------------------
(* The R2 bucket: list() returns, in key order, at most n of the objects   *)
(* under the prefix that come after the position given by startAfter or by *)
(* the cursor of the previous batch, and says whether more remain.         *)

After(keys, prefix, pos) ==
    {k \in keys : startsWith(k, prefix) /\ (pos = NoKey \/ KeyLess(pos, k))}

R2List(keys, opts, n) ==
    LET pos == IF opts.cursor # NoKey THEN opts.cursor ELSE opts.startAfter
        rest == InKeyOrder(After(keys, opts.prefix, pos))
        m == IF n < opts.limit THEN n ELSE opts.limit
        objs == Take(rest, m)
    IN [objects |-> objs,
        truncated |-> Len(rest) > Len(objs),
        cursor |-> IF Len(rest) > Len(objs) THEN objs[Len(objs)] ELSE NoKey]

---------------------------------------------------------------------------
(* GET /api/files (src/worker/index.ts) *)

\* the suffix test without the case folding
IsPdf_cased(key) == endsWith(key, PdfSuffix)

IsPdf(key) == endsWith(toLowerCase(key), PdfSuffix)

\* a single bucket call instead of the loop
LoopCond_once(r) == r.calls = 0 /\ r.hasMoreInBucket

\* while (files.length <= limit && hasMoreInBucket)
LoopCond(r) == JsLeq(Len(r.files), r.limit) /\ r.hasMoreInBucket

\* bucket calls that never pass on the cursor of the previous batch
ListOptions_restart(r) ==
    [prefix |-> r.prefix, limit |-> ListBatchLimit,
     startAfter |-> r.startAfter, cursor |-> NoKey]

\* the options of one bucket call
ListOptions(r) ==
    IF r.isFirstRequest /\ r.startAfter # NoKey
    THEN [prefix |-> r.prefix, limit |-> ListBatchLimit,
          startAfter |-> r.startAfter, cursor |-> NoKey]
    ELSE IF r.bucketCursor # NoKey
    THEN [prefix |-> r.prefix, limit |-> ListBatchLimit,
          startAfter |-> NoKey, cursor |-> r.bucketCursor]
    ELSE [prefix |-> r.prefix, limit |-> ListBatchLimit,
          startAfter |-> NoKey, cursor |-> NoKey]

HasMore(r) == JsGt(Len(r.files), r.limit) \/ r.hasMoreInBucket

ReturnFiles(r) == Slice0(r.files, r.limit)

\* the cursor taken from the untrimmed buffer
NextCursor_untrimmed(r) ==
    IF HasMore(r) /\ Len(r.files) > 0 THEN r.files[Len(r.files)] ELSE NoKey

NextCursor(r) ==
    IF HasMore(r) /\ Len(ReturnFiles(r)) > 0
    THEN ReturnFiles(r)[Len(ReturnFiles(r))]
    ELSE NoKey

NoReq ==
    [pc |-> "idle", startAfter |-> NoKey, limit |-> NaN, prefix |-> <<>>,
     files |-> <<>>, hasMoreInBucket |-> TRUE, bucketCursor |-> NoKey,
     isFirstRequest |-> TRUE, calls |-> 0, barren |-> 0]

NoResp ==
    [status |-> "none", files |-> <<>>, truncated |-> FALSE, cursor |-> NoKey,
     totalReturned |-> 0]

\* an answer to a failed request that carries what had been collected
FailResponse_partial(r) ==
    [status |-> "error", files |-> r.files, truncated |-> TRUE, cursor |-> NoKey,
     totalReturned |-> Len(r.files)]

\* the handler has no try/catch: a rejected bucket call rejects fetch(), and
\* the runtime answers with an error that carries nothing of the handler
FailResponse(r) ==
    [status |-> "error", files |-> <<>>, truncated |-> FALSE, cursor |-> NoKey,
     totalReturned |-> 0]

NoSess == [start |-> NoKey, prefix |-> <<>>, got |-> <<>>, cursor |-> NoKey, pages |-> 0]

InitListing ==
    /\ bucket \in {b \in SUBSET AllKeys : Cardinality(b) >= MinBucket}
    /\ req = NoReq
    /\ resp = NoResp
    /\ sess = NoSess

\* a request arrives: the query parameters are read (lines 62-70)
ListStart(cursor, rawLimit, prefix) ==
    /\ req.pc # "loop"
    /\ req' = [pc |-> "loop",
               startAfter |-> cursor,
               limit |-> MathMin(ParseLimit(rawLimit), LimitCap),
               prefix |-> prefix,
               files |-> <<>>,
               hasMoreInBucket |-> TRUE,
               bucketCursor |-> NoKey,
               isFirstRequest |-> TRUE,
               calls |-> 0,
               barren |-> 0]
    /\ sess' = IF cursor # NoKey /\ cursor = sess.cursor /\ prefix = sess.prefix
               THEN sess
               ELSE [NoSess EXCEPT !.start = cursor, !.prefix = prefix]
    /\ UNCHANGED <<bucket, resp>>

\* a filter loop that puts each batch in front of the buffer
Collect_infront(files, objects) == SelectSeq(objects, IsPdf) \o files

\* for (const obj of listed.objects) if (...) files.push(...), lines 87-95
Collect(files, objects) == files \o SelectSeq(objects, IsPdf)

\* one iteration of the loop: one bucket call and the filter (lines 72-99)
ListBatch(n) ==
    /\ req.pc = "loop"
    /\ LoopCond(req)
    /\ LET listed == R2List(bucket, ListOptions(req), n)
       IN req' = [req EXCEPT
                    !.isFirstRequest =
                        IF req.isFirstRequest /\ req.startAfter # NoKey THEN FALSE ELSE @,
                    !.files = Collect(@, listed.objects),
                    !.hasMoreInBucket = listed.truncated,
                    !.bucketCursor = IF listed.truncated THEN listed.cursor ELSE NoKey,
                    !.calls = @ + 1,
                    !.barren = IF SelectSeq(listed.objects, IsPdf) = <<>> THEN @ + 1 ELSE @]
    /\ UNCHANGED <<bucket, resp, sess>>

\* the loop has ended: trim and answer (lines 101-124)
ListRespond ==
    /\ req.pc = "loop"
    /\ ~LoopCond(req)
    /\ resp' = [status |-> "ok",
                files |-> ReturnFiles(req),
                truncated |-> HasMore(req),
                cursor |-> NextCursor(req),
                totalReturned |-> Len(ReturnFiles(req))]
    /\ req' = [req EXCEPT !.pc = "done"]
    /\ sess' = [sess EXCEPT !.got = @ \o ReturnFiles(req),
                            !.cursor = NextCursor(req),
                            !.pages = @ + 1]
    /\ UNCHANGED bucket

\* await env.R2_BUCKET.list(listOptions) rejects (line 85)
ListFail ==
    /\ req.pc = "loop"
    /\ LoopCond(req)
    /\ resp' = FailResponse(req)
    /\ req' = [req EXCEPT !.pc = "failed"]
    /\ UNCHANGED <<bucket, sess>>

\* a step of the worker leaves the browser side alone
WorkerOnly == UNCHANGED <<keysVars, queueVars, viewerVars, homeVars, navVars, cacheVars, pageVars>>

NextListing ==
    \/ \E c \in {NoKey} \cup AllKeys, l \in RawLimits, p \in Prefixes :
          ListStart(c, l, p) /\ WorkerOnly
    \/ \E n \in 1..BucketBatch : ListBatch(n) /\ WorkerOnly
    \/ ListRespond /\ WorkerOnly
    \/ ListFail /\ WorkerOnly

---------------------------------------------------------------------------
(* LoadQueue (src/app/page.tsx): at most maxConcurrent tasks run at once.  *)
(* A task is "new" until add() is called with it, then "queued", then      *)
(* "started" from the call task() until its promise settles, then "ok" or  *)
(* "failed".  started[i] is the i-th task that was started.                *)

maxConcurrent == 3

\* number of tasks ever handed to add()
MaxTasks == 6

TaskIds == 1..MaxTasks

Active(t) == {i \in TaskIds : t.state[i] = "started"}

InitQueue ==
    /\ queue = <<>>
    /\ running = 0
    /\ tasks = [state |-> [i \in TaskIds |-> "new"], started |-> <<>>]

\* process() without the test of the concurrency limit
Process_unbounded(q, r, t) ==
    IF q = <<>>
    THEN [queue |-> q, running |-> r, tasks |-> t]
    ELSE [queue |-> Tail(q),
          running |-> r + 1,
          tasks |-> [state |-> [t.state EXCEPT ![Head(q)] = "started"],
                     started |-> Append(t.started, Head(q))]]

\* process(), up to its await: start the head of the queue if a slot is free
Process(q, r, t) ==
    IF r >= maxConcurrent \/ q = <<>>
    THEN [queue |-> q, running |-> r, tasks |-> t]
    ELSE [queue |-> Tail(q),
          running |-> r + 1,
          tasks |-> [state |-> [t.state EXCEPT ![Head(q)] = "started"],
                     started |-> Append(t.started, Head(q))]]

\* add(task)
Add(i) ==
    /\ tasks.state[i] = "new"
    /\ \A j \in TaskIds : j < i => tasks.state[j] # "new"
    /\ LET after == Process(Append(queue, i), running,
                            [tasks EXCEPT !.state[i] = "queued"])
       IN /\ queue' = after.queue
          /\ running' = after.running
          /\ tasks' = after.tasks

\* a finally block that does not give the slot back
Settle_slotKept(i, outcome) ==
    /\ tasks.state[i] = "started"
    /\ LET after == Process(queue, running,
                            [tasks EXCEPT !.state[i] = outcome])
       IN /\ queue' = after.queue
          /\ running' = after.running
          /\ tasks' = after.tasks

\* the promise of a started task settles: the finally block of process()
Settle(i, outcome) ==
    /\ tasks.state[i] = "started"
    /\ LET after == Process(queue, running - 1,
                            [tasks EXCEPT !.state[i] = outcome])
       IN /\ queue' = after.queue
          /\ running' = after.running
          /\ tasks' = after.tasks

\* a step of the thumbnail queue leaves the worker and the viewer alone
QueueOnly == UNCHANGED <<listVars, keysVars, viewerVars, homeVars, navVars, cacheVars, pageVars>>

NextQueue ==
    \/ \E i \in TaskIds : Add(i) /\ QueueOnly
    \/ \E i \in TaskIds, o \in {"ok", "failed"} : Settle(i, o) /\ QueueOnly

---------------------------------------------------------------------------
(* The document viewer (src/app/file-browser.tsx): the page cache, the     *)
(* prefetch set, prefetchPdf and the FileModal of FileBrowser.  Documents  *)
(* are numbered in the order of the filtered view; 0 is "no document".     *)
(* A job is an invocation of prefetchPdf or of FileModal.loadPages that is *)
(* suspended at an await; a step resolves or rejects that await and runs   *)
(* the job to its next await or to its end.  Consecutive awaits with no    *)
(* statement between them that reads or writes the cache, the prefetch     *)
(* set, the cancelled flag or the modal state are one await point:         *)
(*   loadPages   "images"    await loadPagesFromImages(...)                *)
(*               "document"  await import("pdfjs-dist"),                   *)
(*                           await loadingTask.promise                     *)
(*               "page"      await pdf.getPage(n),                         *)
(*                           await page.render(...).promise                *)
(*   prefetchPdf "pending"   every await of the function: between its      *)
(*                           test of the cache and its setPdfPages it      *)
(*                           touches only its own renderedPages            *)
(***************************************************************************)

NumDocs == 2
MaxPages == 2
MaxJobs == 4
MaxDirect == 2
PrefetchAhead == 5

Docs == 1..NumDocs
NoDoc == 0

\* a page image: a pre-rendered URL or a data URL rendered in the browser
Page(src, k, i) == [src |-> src, doc |-> k, page |-> i]

\* getPageImageUrl
getPageImageUrl(k, i) == Page("url", k, i)

\* loadPagesFromImages: the URLs of pages 1..pageCount
loadPagesFromImages(k, pageCount) == [i \in 1..pageCount |-> getPageImageUrl(k, i)]

\* renderedPages after n pages have been rasterised
RenderedPages(k, n) == [i \in 1..n |-> Page("data", k, i)]

\* getPdfManifest()?.[filePath]?.pages, 0 when there is no entry
ManifestPages(k) == docs[k].manifest

\* pdf.numPages
NumPagesOf(k) == docs[k].numPages

\* lib/cache
Cached(c, k) == k \in DOMAIN c

\* a cache whose second write for a key appends to the first
setPdfPages_appending(c, k, pages) ==
    [x \in DOMAIN c \cup {k} |->
        IF x # k THEN c[x] ELSE IF k \in DOMAIN c THEN c[k] \o pages ELSE pages]

\* pdfPagesCache.set(key, pages)
setPdfPages(c, k, pages) == [x \in DOMAIN c \cup {k} |-> IF x = k THEN pages ELSE c[x]]

Job(kind, k, pc) ==
    [kind |-> kind, key |-> k, pc |-> pc, rendered |-> 0,
     cancelled |-> FALSE, detached |-> FALSE]

\* what ev records: the end of a job, "stored", "failed", "abandoned" (a
\* cancelled direct render returned) or "empty" (a document without pages),
\* or a call of prefetchPdf that returned at once, "skipped"
Event(op, kind, k, stale) ==
    [op |-> op, kind |-> kind, key |-> k, stale |-> stale, imgError |-> FALSE]

\* ev after a step that ends no job
NoEvent == Event("other", "none", NoDoc, FALSE)

\* a viewer that never looks at the manifest
ImageMode_ignored(k) == FALSE

\* if (manifestEntry && manifestEntry.pages > 0): pre-rendered images are used
ImageMode(k) == ManifestPages(k) > 0

\* the first await of loadPages
FirstAwait(k) == IF ImageMode(k) THEN "images" ELSE "document"

\* prefetchPdf, line 195, without the test of the prefetch set
PrefetchSkips_cachedOnly(c, ps, k) == Cached(c, k)

\* prefetchPdf, line 195: nothing to do for a cached or pending key
PrefetchSkips(c, ps, k) == Cached(c, k) \/ k \in ps

\* prefetchPdf(k) up to its first await
PrefetchCall(k) ==
    IF PrefetchSkips(cache, prefetchingSet, k)
    THEN /\ ev' = Event("skipped", "prefetch", k, FALSE)
         /\ UNCHANGED <<prefetchingSet, jobs>>
    ELSE /\ BagCardinality(jobs) < MaxJobs
         /\ prefetchingSet' = prefetchingSet \cup {k}
         /\ jobs' = jobs (+) SetToBag({Job("prefetch", k, "pending")})
         /\ ev' = NoEvent

\* a document rendered in the browser, with n pages and no manifest entry
PdfDoc(n) == [numPages |-> n, manifest |-> 0]

\* a document with pre-rendered page images listed in the manifest
ImageDoc(n) == [numPages |-> n, manifest |-> n]

\* the positions of the view at which the document may be a special one
SpecialDocs == {NumDocs}

\* the document sets the model starts from: PDFs of MaxPages pages, of which
\* at most one is replaced by a pre-rendered document or a PDF without pages
DocConfigs ==
    {[k \in Docs |-> PdfDoc(MaxPages)]}
    \cup {[[k \in Docs |-> PdfDoc(MaxPages)] EXCEPT ![s] = d] :
            s \in SpecialDocs, d \in {ImageDoc(MaxPages), PdfDoc(0)}}

NoView ==
    [openFile |-> NoDoc, pages |-> <<>>, loading |-> TRUE, error |-> FALSE,
     rLoading |-> TRUE, timers |-> <<>>]

InitViewer ==
    /\ docs \in DocConfigs
    /\ cache = <<>>
    /\ prefetchingSet = {}
    /\ jobs = EmptyBag
    /\ view = NoView
    /\ ev = NoEvent

Replace(j, j2) == (jobs (-) SetToBag({j})) (+) SetToBag({j2})
Remove(j) == jobs (-) SetToBag({j})

\* a job that stores whatever it has rendered
StoresWhenDone_always(n) == TRUE

\* if (renderedPages.length > 0) before setPdfPages
StoresWhenDone(n) == n > 0

\* a prefetchPdf that leaves its key in the prefetch set
PrefetchFinally_kept(ps, k) == ps

\* the finally block of prefetchPdf
PrefetchFinally(ps, k) == ps \ {k}

\* a prefetch job ends without writing the cache
PrefetchEnds(j, op) ==
    /\ prefetchingSet' = PrefetchFinally(prefetchingSet, j.key)
    /\ jobs' = Remove(j)
    /\ ev' = Event(op, "prefetch", j.key, FALSE)
    /\ UNCHANGED <<docs, cache, view>>

\* a prefetchPdf whose return after setPdfPages skips the cleanup
PrefetchStores_setKept(j, pages, imgError) ==
    /\ cache' = setPdfPages(cache, j.key, pages)
    /\ jobs' = Remove(j)
    /\ ev' = [Event("stored", "prefetch", j.key, FALSE) EXCEPT !.imgError = imgError]
    /\ UNCHANGED <<docs, view, prefetchingSet>>

\* a prefetch job ends with setPdfPages(key, pages)
PrefetchStores(j, pages, imgError) ==
    /\ cache' = setPdfPages(cache, j.key, pages)
    /\ prefetchingSet' = PrefetchFinally(prefetchingSet, j.key)
    /\ jobs' = Remove(j)
    /\ ev' = [Event("stored", "prefetch", j.key, FALSE) EXCEPT !.imgError = imgError]
    /\ UNCHANGED <<docs, view>>

\* prefetchPdf: the awaits of job j all resolve.  imgError: some image fired
\* onerror, which resolves its promise like onload (line 213)
PrefetchResolve(j, imgError) ==
    /\ j \in BagToSet(jobs)
    /\ j.kind = "prefetch"
    /\ imgError => ImageMode(j.key)
    /\ IF ImageMode(j.key)
       THEN PrefetchStores(j, loadPagesFromImages(j.key, ManifestPages(j.key)), imgError)
       ELSE IF StoresWhenDone(NumPagesOf(j.key))
       THEN PrefetchStores(j, RenderedPages(j.key, NumPagesOf(j.key)), FALSE)
       ELSE PrefetchEnds(j, "empty")

\* a prefetchPdf whose catch block reports the error to the open modal
PrefetchReject_surfacing(j, n) ==
    /\ j \in BagToSet(jobs)
    /\ j.kind = "prefetch"
    /\ ~ImageMode(j.key)
    /\ n = 0 \/ n < NumPagesOf(j.key)
    /\ prefetchingSet' = PrefetchFinally(prefetchingSet, j.key)
    /\ jobs' = Remove(j)
    /\ ev' = Event("failed", "prefetch", j.key, FALSE)
    /\ view' = [view EXCEPT !.error = TRUE, !.loading = FALSE]
    /\ UNCHANGED <<docs, cache>>

\* prefetchPdf: an await of job j rejects after n pages were rendered (the
\* import, the document load, getPage or render); catch swallows the error
\* and finally cleans up.  The image-mode awaits never reject.
PrefetchReject(j, n) ==
    /\ j \in BagToSet(jobs)
    /\ j.kind = "prefetch"
    /\ ~ImageMode(j.key)
    /\ n = 0 \/ n < NumPagesOf(j.key)
    /\ PrefetchEnds(j, "failed")

---------------------------------------------------------------------------
(* FileModal.loadPages, the direct render *)

\* a setState call of a job reaches the modal only while it is mounted
Mounted(j) == ~j.detached

\* a direct job returns at an "if (cancelled) return"
DirectAbandons(j) ==
    /\ jobs' = Remove(j)
    /\ ev' = Event("abandoned", "direct", j.key, TRUE)
    /\ UNCHANGED <<docs, cache, prefetchingSet, view>>

\* a direct job moves on to its next await
DirectAwaits(j, pc) ==
    /\ jobs' = Replace(j, [j EXCEPT !.pc = pc])
    /\ ev' = NoEvent
    /\ UNCHANGED <<docs, cache, prefetchingSet, view>>

\* a loadPages without the finally block
DirectFinally_loadingKept(j, v) == v

\* the finally block of loadPages: if (!cancelled) setLoading(false)
DirectFinally(j, v) == IF ~j.cancelled THEN [v EXCEPT !.loading = FALSE] ELSE v

\* image mode, lines 457-465
DirectImagesDone(j) ==
    IF j.cancelled
    THEN DirectAbandons(j)
    ELSE LET urls == loadPagesFromImages(j.key, ManifestPages(j.key))
         IN /\ view' = DirectFinally(j, [view EXCEPT !.pages = urls, !.loading = FALSE])
            /\ cache' = setPdfPages(cache, j.key, urls)
            /\ jobs' = Remove(j)
            /\ ev' = Event("stored", "direct", j.key, FALSE)
            /\ UNCHANGED <<docs, prefetchingSet>>

\* a loadPages that stores whether cancelled or not
DirectStores_uncancelled(j, n) == StoresWhenDone(n)

\* if (!cancelled && renderedPages.length > 0) before setPdfPages, line 503
DirectStores(j, n) == ~j.cancelled /\ StoresWhenDone(n)

\* the loop has run out of pages, lines 503-505 and the finally block
DirectLoopDone(j, n, v) ==
    /\ view' = DirectFinally(j, v)
    /\ jobs' = Remove(j)
    /\ IF DirectStores(j, n)
       THEN /\ cache' = setPdfPages(cache, j.key, RenderedPages(j.key, n))
            /\ ev' = Event("stored", "direct", j.key, j.cancelled)
       ELSE /\ ev' = Event(IF j.cancelled THEN "abandoned" ELSE "empty",
                           "direct", j.key, j.cancelled)
            /\ UNCHANGED cache
    /\ UNCHANGED <<docs, prefetchingSet>>

\* a page has been rendered, lines 497-500 and the head of the next iteration
DirectPageDone(j) ==
    LET n == j.rendered + 1
        shown == IF Mounted(j) THEN [view EXCEPT !.pages = RenderedPages(j.key, n)] ELSE view
    IN IF n < NumPagesOf(j.key)
       THEN /\ view' = shown
            /\ jobs' = IF j.cancelled
                       THEN Remove(j)
                       ELSE Replace(j, [j EXCEPT !.rendered = n])
            /\ ev' = IF j.cancelled
                     THEN Event("abandoned", "direct", j.key, TRUE)
                     ELSE NoEvent
            /\ UNCHANGED <<docs, cache, prefetchingSet>>
       ELSE DirectLoopDone(j, n, shown)

\* loadPages: the await of job j resolves
DirectResolve(j) ==
    /\ j \in BagToSet(jobs)
    /\ j.kind = "direct"
    /\ CASE j.pc = "images" -> DirectImagesDone(j)
         [] j.pc = "document" ->
              IF j.cancelled THEN DirectAbandons(j)
              ELSE IF NumPagesOf(j.key) >= 1 THEN DirectAwaits(j, "page")
              ELSE DirectLoopDone(j, 0, view)
         [] j.pc = "page" -> DirectPageDone(j)

\* a loadPages that stores what it has rendered when an await rejects
DirectReject_storesPartial(j) ==
    /\ j \in BagToSet(jobs)
    /\ j.kind = "direct"
    /\ j.pc \in {"document", "page"}
    /\ view' = DirectFinally(j, IF ~j.cancelled THEN [view EXCEPT !.error = TRUE] ELSE view)
    /\ jobs' = Remove(j)
    /\ ev' = Event("failed", "direct", j.key, j.cancelled)
    /\ cache' = IF j.rendered > 0
                THEN setPdfPages(cache, j.key, RenderedPages(j.key, j.rendered))
                ELSE cache
    /\ UNCHANGED <<docs, prefetchingSet>>

\* loadPages: the await of job j rejects, lines 506-514
DirectReject(j) ==
    /\ j \in BagToSet(jobs)
    /\ j.kind = "direct"
    /\ j.pc \in {"document", "page"}
    /\ view' = DirectFinally(j, IF ~j.cancelled THEN [view EXCEPT !.error = TRUE] ELSE view)
    /\ jobs' = Remove(j)
    /\ ev' = Event("failed", "direct", j.key, j.cancelled)
    /\ UNCHANGED <<docs, cache, prefetchingSet>>

---------------------------------------------------------------------------
(* FileBrowser and the effects of FileModal *)

\* nextFiles: filteredFiles.slice(selectedFileIndex + 1, selectedFileIndex + 6)
NextFiles(k) ==
    [i \in 1..(IF NumDocs - k < PrefetchAhead THEN NumDocs - k ELSE PrefetchAhead) |-> k + i]

\* the timeouts the prefetch effect sets: key i of nextFiles after (i-1)*100 ms
TimersFor(k) == [i \in 1..Len(NextFiles(k)) |-> [key |-> NextFiles(k)[i], idx |-> i - 1]]

\* the prefetch effect (lines 526-543) in a commit that renders the given
\* loading flag for open file k: its cleanup clears the pending timeouts
PrefetchEffect(loading, k) ==
    IF loading \/ Len(NextFiles(k)) = 0 THEN <<>> ELSE TimersFor(k)

\* a cleanup that leaves the cancelled flag alone
Cancel_kept(j, unmount) ==
    IF j.kind = "direct"
    THEN [j EXCEPT !.detached = @ \/ unmount]
    ELSE j

\* the cleanup of the load effect: cancelled = true for the render it started;
\* unmounting also detaches the job from the modal's state
Cancel(j, unmount) ==
    IF j.kind = "direct"
    THEN [j EXCEPT !.cancelled = TRUE, !.detached = @ \/ unmount]
    ELSE j

CancelAll(b, unmount) == BagOfAll(LAMBDA j : Cancel(j, unmount), b)

DirectJobs(b) == {j \in BagToSet(b) : j.kind = "direct"}

\* const cached = getPdfPages(filePath); if (cached && cached.length > 0)
DirectHit(c, k) == Cached(c, k) /\ Len(c[k]) > 0

\* the load effect (lines 432-522) for file k, after the cleanup of the
\* previous run; v is the modal state the commit rendered
LoadEffect(k, v, b) ==
    IF DirectHit(cache, k)
    THEN /\ view' = [v EXCEPT !.openFile = k, !.error = FALSE,
                               !.pages = cache[k], !.loading = FALSE]
         /\ jobs' = b
    ELSE /\ BagCardinality(b) < MaxJobs
         /\ Cardinality(DirectJobs(b)) < MaxDirect
         /\ view' = [v EXCEPT !.openFile = k, !.error = FALSE,
                               !.pages = <<>>, !.loading = TRUE]
         /\ jobs' = b (+) SetToBag({Job("direct", k, FirstAwait(k))})

\* onMouseEnter of a card; the open modal covers the grid
Hover(k) ==
    /\ view.openFile = NoDoc
    /\ PrefetchCall(k)
    /\ UNCHANGED <<docs, cache, view>>

\* onClick of a card: setOpenFile(key) mounts the modal
Open(k) ==
    /\ view.openFile = NoDoc
    /\ LoadEffect(k, NoView, jobs)
    /\ ev' = NoEvent
    /\ UNCHANGED <<docs, cache, prefetchingSet>>

\* handlePrev / handleNext: the modal stays mounted and its file changes
Nav(d) ==
    LET k == view.openFile + d
    IN /\ view.openFile # NoDoc
       /\ k \in Docs
       /\ LoadEffect(k,
                     [view EXCEPT !.rLoading = view.loading,
                                  !.timers = PrefetchEffect(view.loading, k)],
                     CancelAll(jobs, FALSE))
       /\ ev' = NoEvent
       /\ UNCHANGED <<docs, cache, prefetchingSet>>

\* handleClose: setOpenFile(null) unmounts the modal
Close ==
    /\ view.openFile # NoDoc
    /\ view' = NoView
    /\ jobs' = CancelAll(jobs, TRUE)
    /\ ev' = NoEvent
    /\ UNCHANGED <<docs, cache, prefetchingSet>>

\* the modal re-renders with a changed loading flag: the prefetch effect runs again
Rerender ==
    /\ view.openFile # NoDoc
    /\ view.loading # view.rLoading
    /\ view' = [view EXCEPT !.rLoading = view.loading,
                            !.timers = PrefetchEffect(view.loading, view.openFile)]
    /\ ev' = NoEvent
    /\ UNCHANGED <<docs, cache, prefetchingSet, jobs>>

\* a timeout of the prefetch effect fires; only the zero-delay one can come
\* before a re-render that is already due
TimerFire ==
    /\ view.timers # <<>>
    /\ view.loading = view.rLoading \/ Head(view.timers).idx = 0
    /\ PrefetchCall(Head(view.timers).key)
    /\ view' = [view EXCEPT !.timers = Tail(@)]
    /\ UNCHANGED <<docs, cache>>

AllJobs == BagToSet(jobs)

\* a step of the viewer leaves the worker and the thumbnail queue alone
ViewerOnly == UNCHANGED <<listVars, keysVars, queueVars, homeVars, navVars, cacheVars, pageVars>>

NextViewer ==
    \/ \E k \in Docs : Hover(k) /\ ViewerOnly
    \/ \E k \in Docs : Open(k) /\ ViewerOnly
    \/ \E d \in {0 - 1, 1} : Nav(d) /\ ViewerOnly
    \/ Close /\ ViewerOnly
    \/ Rerender /\ ViewerOnly
    \/ TimerFire /\ ViewerOnly
    \/ \E j \in AllJobs, e \in BOOLEAN : PrefetchResolve(j, e) /\ ViewerOnly
    \/ \E j \in AllJobs, n \in 0..(MaxPages - 1) : PrefetchReject(j, n) /\ ViewerOnly
    \/ \E j \in AllJobs : DirectResolve(j) /\ ViewerOnly
    \/ \E j \in AllJobs : DirectReject(j) /\ ViewerOnly

---------------------------------------------------------------------------
(* Home, the listing client: its state, fetchFiles and its effects *)

\* the largest number of pages a listing is cut into
MaxListPages == 2

\* the largest number of listing requests in flight
MaxFetches == 2

\* collectionFilter === "All": the request carries no prefix
AllFilter == <<>>

\* a cursor as the client holds it: the page it ends and (history) the
\* prefix of the request whose response carried it
Cursor(p, n) == [prefix |-> p, page |-> n]

\* cursor === null
NoCursor == Cursor(AllFilter, 0)

\* the files of page n of the listing under prefix p
Batch(p, n) == [prefix |-> p, page |-> n]

\* the parameters of one call of fetchFiles
Request(c, p) == [cursor |-> c, prefix |-> p]

\* lib/cache: the initial filesCache.  The list filesCache.files is kept as
\* the set of the files it holds (files) and the set of those it holds more
\* than once (repeated)
EmptyFilesCache == [files |-> {}, repeated |-> {}, cursor |-> NoCursor, hasMore |-> TRUE]

\* lib/cache: appendToFilesCache, [...filesCache.files, ...newFiles]
appendToFilesCache(c, newFiles, cursor, hasMore) ==
    [files |-> c.files \cup newFiles,
     repeated |-> c.repeated \cup (c.files \cap newFiles),
     cursor |-> cursor, hasMore |-> hasMore]

\* what the worker may answer to a request: a truncated page with the
\* cursor for the next one, a last page (possibly empty), or a failure
ListingResponses(r) ==
    LET n == r.cursor.page + 1
    IN {[ok |-> TRUE, files |-> {Batch(r.prefix, n)}, truncated |-> TRUE,
         cursor |-> Cursor(r.prefix, m)] : m \in {n} \cap (1..MaxListPages)}
       \cup {[ok |-> TRUE, files |-> fs, truncated |-> FALSE, cursor |-> NoCursor] :
                fs \in {{}, {Batch(r.prefix, n)}}}
       \cup {[ok |-> FALSE, files |-> {}, truncated |-> FALSE, cursor |-> NoCursor]}

\* the client as the operators below transform it
Client(h, c, f) == [home |-> h, filesCache |-> c, fetches |-> f]

\* useState initial values of Home for the filter of the URL
\* atEnd: the last row the virtualizer renders is the last row of the list
\* or the loader row below it; last and started (history): the event of
\* the last step and the number of calls of fetchFiles it made
InitialHome(filter, c) ==
    [filter |-> filter, files |-> c.files, loading |-> c.files = {},
     error |-> FALSE, cursor |-> c.cursor, hasMore |-> c.hasMore,
     atEnd |-> TRUE, last |-> "mount", started |-> 0]

\* fetchFiles(cursorParam, prefix) up to its await
FetchFiles(st, c, p) ==
    [st EXCEPT !.home.loading = TRUE,
               !.home.started = @ + 1,
               !.fetches = @ (+) SetToBag({Request(c, p)})]

\* the initial-load effect, for the state the commit rendered
InitialLoadEffect(rendered, st) ==
    IF rendered.files = {} /\ rendered.filter = AllFilter
    THEN FetchFiles(st, NoCursor, AllFilter)
    ELSE st

\* the filter-change effect, for the state the commit rendered
FilterEffect(rendered, st) ==
    IF rendered.filter = AllFilter /\ st.filesCache.files # {}
    THEN [st EXCEPT !.home.files = st.filesCache.files,
                    !.home.cursor = st.filesCache.cursor,
                    !.home.hasMore = st.filesCache.hasMore]
    ELSE FetchFiles([st EXCEPT !.home.files = {},
                               !.home.cursor = NoCursor,
                               !.home.hasMore = TRUE],
                    NoCursor, rendered.filter)

\* the load-more effect, for the state the commit rendered
LoadMoreEffect(rendered, st) ==
    IF rendered.atEnd /\ rendered.hasMore /\ ~rendered.loading /\ rendered.cursor # NoCursor
    THEN FetchFiles(st, rendered.cursor, rendered.filter)
    ELSE st

\* the dependencies of the load-more effect differ between two commits
LoadMoreDeps(prev, h) ==
    \/ h.atEnd # prev.atEnd
    \/ Cardinality(h.files) # Cardinality(prev.files)
    \/ h.hasMore # prev.hasMore
    \/ h.loading # prev.loading
    \/ h.cursor # prev.cursor
    \/ h.filter # prev.filter

\* the commit after state updates: the initial-load effect runs again when
\* files.length or the filter differs from the previous commit, the
\* load-more effect when one of its dependencies does
Commit(prev, st) ==
    LET first == IF \/ Cardinality(st.home.files) # Cardinality(prev.files)
                    \/ st.home.filter # prev.filter
                 THEN InitialLoadEffect(st.home, st)
                 ELSE st
    IN IF LoadMoreDeps(prev, st.home) THEN LoadMoreEffect(st.home, first) ELSE first

\* the first commit of Home: every effect runs
Mount(filter) ==
    LET h == InitialHome(filter, EmptyFilesCache)
        st == Client(h, EmptyFilesCache, EmptyBag)
        after == LoadMoreEffect(h, FilterEffect(h, InitialLoadEffect(h, st)))
    IN Commit(h, after)

InitHome ==
    \E f \in Prefixes :
        /\ home = Mount(f).home
        /\ filesCache = Mount(f).filesCache
        /\ fetches = Mount(f).fetches

Current == Client(home, filesCache, fetches)

\* the client moves to state st
Becomes(st) ==
    /\ BagCardinality(st.fetches) <= MaxFetches
    /\ home' = st.home
    /\ filesCache' = st.filesCache
    /\ fetches' = st.fetches

\* setCollectionFilter(f): the commit with the new filter runs the
\* initial-load effect and the filter-change effect
SetFilter(f) ==
    /\ f # home.filter
    /\ LET h == [home EXCEPT !.filter = f, !.last = "filter", !.started = 0]
           st == Client(h, filesCache, fetches)
           after == LoadMoreEffect(h, FilterEffect(h, InitialLoadEffect(h, st)))
       IN Becomes(Commit(h, after))

\* the user scrolls to the end of the list (b) or away from it: the rows
\* the virtualizer renders change, and the load-more effect runs
Scroll(b) ==
    /\ b # home.atEnd
    /\ LET h == [home EXCEPT !.atEnd = b, !.last = "scroll", !.started = 0]
       IN Becomes(Commit(home, Client(h, filesCache, fetches)))

\* fetchFiles after its await, for a response that is ok
Received(st, r, d) ==
    [st EXCEPT !.home.files = IF r.cursor # NoCursor THEN @ \cup d.files ELSE d.files,
               !.filesCache = IF r.prefix = AllFilter
                              THEN appendToFilesCache(@, d.files, d.cursor, d.truncated)
                              ELSE @,
               !.home.cursor = d.cursor,
               !.home.hasMore = d.truncated,
               !.home.loading = FALSE]

\* fetchFiles after its await, for a failed request
Failed(st) == [st EXCEPT !.home.error = TRUE, !.home.loading = FALSE]

\* the response d to request r arrives
Response(r, d) ==
    /\ r \in BagToSet(fetches)
    /\ d \in ListingResponses(r)
    /\ LET h == [home EXCEPT !.last = IF d.ok THEN "response" ELSE "failure",
                             !.started = 0]
           st == Client(h, filesCache, fetches (-) SetToBag({r}))
       IN Becomes(Commit(home, IF d.ok THEN Received(st, r, d) ELSE Failed(st)))

\* a step of Home leaves the rest of the program alone
HomeOnly == UNCHANGED <<listVars, keysVars, queueVars, viewerVars, navVars, cacheVars, pageVars>>

NextHome ==
    \/ \E f \in Prefixes : SetFilter(f) /\ HomeOnly
    \/ \E b \in BOOLEAN : Scroll(b) /\ HomeOnly
    \/ \E r \in BagToSet(fetches) : \E d \in ListingResponses(r) : Response(r, d) /\ HomeOnly

---------------------------------------------------------------------------
(* Navigation: FilesProvider (src/lib/files-context.tsx) and the filtered, *)
(* sorted filtered of FileBrowser (src/app/file-browser.tsx)                   *)

\* the longest file list the layout hands to FilesProvider
MaxFiles == 3

Digits == {"0", "1", "2", "3", "4", "5", "6", "7", "8", "9"}

DigitVal ==
    ("0" :> 0) @@ ("1" :> 1) @@ ("2" :> 2) @@ ("3" :> 3) @@ ("4" :> 4) @@
    ("5" :> 5) @@ ("6" :> 6) @@ ("7" :> 7) @@ ("8" :> 8) @@ ("9" :> 9)

\* parseInt of a string of digits
RECURSIVE ParseDigits(_)
ParseDigits(ds) ==
    IF ds = <<>> THEN 0
    ELSE 10 * ParseDigits(SubSeq(ds, 1, Len(ds) - 1)) + DigitVal[ds[Len(ds)]]

\* the collation weight of a character: punctuation, then digits, then letters
Collate ==
    ("/" :> 1) @@ ("." :> 2) @@
    [c \in Digits |-> 10 + DigitVal[c]] @@
    ("A" :> 30) @@ ("B" :> 31) @@ ("d" :> 33) @@ ("E" :> 34) @@ ("F" :> 35) @@
    ("f" :> 35) @@ ("I" :> 38) @@ ("L" :> 41) @@ ("M" :> 42) @@ ("O" :> 44) @@
    ("p" :> 45) @@ ("S" :> 48) @@ ("T" :> 49) @@ ("V" :> 51) @@
    ("D" :> 33) @@ ("g" :> 36) @@ ("j" :> 39) @@ ("P" :> 45)

\* String.prototype.localeCompare: negative, zero or positive
RECURSIVE localeCompare(_, _)
localeCompare(a, b) ==
    IF a = <<>> /\ b = <<>> THEN 0
    ELSE IF a = <<>> THEN 0 - 1
    ELSE IF b = <<>> THEN 1
    ELSE IF Collate[Head(a)] < Collate[Head(b)] THEN 0 - 1
    ELSE IF Collate[Head(a)] > Collate[Head(b)] THEN 1
    ELSE localeCompare(Tail(a), Tail(b))

EFTA == <<"E", "F", "T", "A">>

\* the regular expression EFTA\d+ matches at position i of s
MatchesAt(s, i) ==
    /\ i + 4 <= Len(s)
    /\ SubSeq(s, i, i + 3) = EFTA
    /\ s[i + 4] \in Digits

\* the last position of the run of digits of s that starts at position i
RECURSIVE DigitsEnd(_, _)
DigitsEnd(s, i) ==
    IF i < Len(s) /\ s[i + 1] \in Digits THEN DigitsEnd(s, i + 1) ELSE i

\* key.match(/EFTA\d+/): the position of the first match, 0 for no match
MatchEFTA(s) ==
    IF \E i \in 1..Len(s) : MatchesAt(s, i)
    THEN CHOOSE i \in 1..Len(s) :
            MatchesAt(s, i) /\ \A h \in 1..(i - 1) : ~MatchesAt(s, h)
    ELSE 0

\* getFileId: the first EFTA<digits> of the key, or the key
getFileId(key) ==
    LET i == MatchEFTA(key)
    IN IF i = 0 THEN key ELSE SubSeq(key, i, DigitsEnd(key, i + 4))

\* a file of the listing
FileItem(key, size, uploaded) == [key |-> key, size |-> size, uploaded |-> uploaded]

\* the key of document <digits> in collection vol
DocKey(vol, digits) == vol \o <<"/">> \o EFTA \o digits \o PdfSuffix

\* the documents the lists of the model are made of: identifiers written
\* with one and with two digits, one identifier twice, equal sizes and dates
NavFiles ==
    { FileItem(DocKey(<<"A">>, <<"9">>), 2, 1),
      FileItem(DocKey(<<"A">>, <<"1", "0">>), 1, 2),
      FileItem(DocKey(<<"B">>, <<"1", "0">>), 1, 1),
      FileItem(DocKey(<<"B">>, <<"1", "1">>), 3, 3) }

NavKeys == {f.key : f \in NavFiles}

\* the lists of distinct files of at most n entries
RECURSIVE FileLists(_)
FileLists(n) ==
    IF n = 0 THEN {<<>>}
    ELSE FileLists(n - 1)
         \cup {Append(s, f) : s \in {t \in FileLists(n - 1) : Len(t) = n - 1},
                              f \in NavFiles}

DistinctLists(n) ==
    {s \in FileLists(n) : \A i, j \in 1..Len(s) : i # j => s[i] # s[j]}

\* the sort modes; any other value of the sort parameter sorts by name
SortModes == {"name", "size-asc", "size-desc", "date-asc", "date-desc"}

\* the comparator of FileBrowser for a sort mode, without tie-breaking
SortCompare(sortBy, a, b) ==
    CASE sortBy = "date-desc" -> b.uploaded - a.uploaded
      [] sortBy = "date-asc" -> a.uploaded - b.uploaded
      [] sortBy = "size-desc" -> b.size - a.size
      [] sortBy = "size-asc" -> a.size - b.size
      [] OTHER -> localeCompare(getFileId(a.key), getFileId(b.key))

\* x put into a sorted list behind every element that does not come after it
RECURSIVE InsertSorted(_, _, _)
InsertSorted(x, s, sortBy) ==
    IF s = <<>> THEN <<x>>
    ELSE IF SortCompare(sortBy, Head(s), x) > 0 THEN <<x>> \o s
    ELSE <<Head(s)>> \o InsertSorted(x, Tail(s), sortBy)

\* [...files].sort(comparator): Array.prototype.sort is stable
RECURSIVE SortFiles(_, _)
SortFiles(fs, sortBy) ==
    IF fs = <<>> THEN <<>>
    ELSE InsertSorted(fs[Len(fs)], SortFiles(SubSeq(fs, 1, Len(fs) - 1), sortBy), sortBy)

\* FilesProvider: sortedFiles
SortedFiles(fs) == SortFiles(fs, "name")

\* Array.prototype.findIndex(f => f.key === key), counting from 0
FindIndex(fs, key) ==
    IF \E i \in 1..Len(fs) : fs[i].key = key
    THEN (CHOOSE i \in 1..Len(fs) :
             fs[i].key = key /\ \A h \in 1..(i - 1) : fs[h].key # key) - 1
    ELSE 0 - 1

\* a getAdjacentFile that stops at the ends of the list
getAdjacentFile_clamped(fs, currentPath, offset) ==
    LET currentIndex == FindIndex(fs, currentPath)
        newIndex == currentIndex + offset
    IN IF currentIndex = 0 - 1 THEN NoKey
       ELSE IF newIndex < 0 THEN fs[1].key
       ELSE IF newIndex >= Len(fs) THEN fs[Len(fs)].key
       ELSE fs[newIndex + 1].key

\* FilesProvider.getAdjacentFile on the list fs; NoKey stands for null
getAdjacentFile(fs, currentPath, offset) ==
    LET currentIndex == FindIndex(fs, currentPath)
        newIndex == currentIndex + offset
    IN IF currentIndex = 0 - 1 THEN NoKey
       ELSE IF newIndex < 0 \/ newIndex >= Len(fs) THEN NoKey
       ELSE fs[newIndex + 1].key

\* the value "All" of a filter
All == <<"A", "l", "l">>

MinConfidence == 99

\* data/celebrity: the appearances of each name, with their confidence
CELEBRITY_DATA ==
    { [name |-> "X",
       appearances |-> { [file |-> DocKey(<<"A">>, <<"9">>), confidence |-> 100],
                         [file |-> DocKey(<<"A">>, <<"1", "0">>), confidence |-> 98],
                         [file |-> DocKey(<<"B">>, <<"1", "1">>), confidence |-> 99] }],
      [name |-> "Y",
       appearances |-> { [file |-> DocKey(<<"B">>, <<"1", "0">>), confidence |-> 100],
                         [file |-> DocKey(<<"B">>, <<"9">>), confidence |-> 100] }] }

\* getFilesForCelebrity
getFilesForCelebrity(celebrityName, minConfidence) ==
    IF \E c \in CELEBRITY_DATA : c.name = celebrityName
    THEN LET celebrity == CHOOSE c \in CELEBRITY_DATA : c.name = celebrityName
         IN {a.file : a \in {x \in celebrity.appearances : x.confidence >= minConfidence}}
    ELSE {}

\* the values the filters take in the model
CollectionFilters == {All, <<"A">>, <<"B">>}
CelebrityFilters == {"All", "X", "Y", "Q"}

\* a view that takes the documents of either filter
Filtered_either(fs, collectionFilter, celebrityFilter) ==
    SelectSeq(fs, LAMBDA f :
        \/ collectionFilter = All /\ celebrityFilter = "All"
        \/ collectionFilter # All /\ startsWith(f.key, collectionFilter)
        \/ celebrityFilter # "All"
             /\ f.key \in getFilesForCelebrity(celebrityFilter, MinConfidence))

\* FileBrowser.filteredFiles before sorting: the two filters, one after the other
Filtered(fs, collectionFilter, celebrityFilter) ==
    LET byCollection ==
            IF collectionFilter # All
            THEN SelectSeq(fs, LAMBDA f : startsWith(f.key, collectionFilter))
            ELSE fs
    IN IF celebrityFilter # "All"
       THEN SelectSeq(byCollection, LAMBDA f :
                f.key \in getFilesForCelebrity(celebrityFilter, MinConfidence))
       ELSE byCollection

\* FileBrowser.filteredFiles
FilteredFiles(fs, b) ==
    SortFiles(Filtered(fs, b.collectionFilter, b.celebrityFilter), b.sortBy)

\* FileBrowser.selectedFileIndex; -1 stands for null
SelectedFileIndex(filtered, openFile) ==
    IF openFile = NoKey THEN 0 - 1 ELSE FindIndex(filtered, openFile)

\* a Previous that is offered wherever a file is selected
HasPrev_everywhere(filtered, openFile) == SelectedFileIndex(filtered, openFile) # 0 - 1

HasPrev(filtered, openFile) ==
    SelectedFileIndex(filtered, openFile) # 0 - 1 /\ SelectedFileIndex(filtered, openFile) > 0

HasNext(filtered, openFile) ==
    /\ SelectedFileIndex(filtered, openFile) # 0 - 1
    /\ SelectedFileIndex(filtered, openFile) < Len(filtered) - 1

\* handlePrev (d = -1) and handleNext (d = 1): the file that is open afterwards
Handle(filtered, openFile, d) ==
    LET i == SelectedFileIndex(filtered, openFile)
    IN IF i # 0 - 1 /\ (IF d < 0 THEN i > 0 ELSE i < Len(filtered) - 1)
       THEN filtered[i + d + 1].key
       ELSE openFile

\* the view FileBrowser renders in the current state
NavView == FilteredFiles(SortedFiles(allFiles), browser)

\* the state of FileBrowser when the page is opened without query parameters
NoBrowser ==
    [collectionFilter |-> All, celebrityFilter |-> "All", sortBy |-> "name",
     openFile |-> NoKey, last |-> "none"]

InitBrowser ==
    /\ allFiles \in DistinctLists(MaxFiles)
    /\ browser = NoBrowser

SetCollectionFilter(c) ==
    /\ c # browser.collectionFilter
    /\ browser' = [browser EXCEPT !.collectionFilter = c, !.last = "filter"]
    /\ UNCHANGED allFiles

SetCelebrityFilter(c) ==
    /\ c # browser.celebrityFilter
    /\ browser' = [browser EXCEPT !.celebrityFilter = c, !.last = "filter"]
    /\ UNCHANGED allFiles

SetSortBy(s) ==
    /\ s # browser.sortBy
    /\ browser' = [browser EXCEPT !.sortBy = s, !.last = "sort"]
    /\ UNCHANGED allFiles

\* onClick of a card of the grid
OpenCard(i) ==
    /\ SelectedFileIndex(NavView, browser.openFile) = 0 - 1
    /\ i \in 1..Len(NavView)
    /\ browser' = [browser EXCEPT !.openFile = NavView[i].key, !.last = "open"]
    /\ UNCHANGED allFiles

\* the modal is mounted: {selectedFile && <FileModal .../>}
ModalMounted == SelectedFileIndex(NavView, browser.openFile) # 0 - 1

\* ArrowLeft (d = -1) or ArrowRight (d = 1) in the modal
ArrowKey(d) ==
    /\ ModalMounted
    /\ browser' =
         [browser EXCEPT
            !.openFile =
                IF (IF d < 0 THEN HasPrev(NavView, browser.openFile)
                             ELSE HasNext(NavView, browser.openFile))
                THEN Handle(NavView, browser.openFile, d)
                ELSE @,
            !.last = IF d < 0 THEN "prev" ELSE "next"]
    /\ UNCHANGED allFiles

\* handleClose
CloseModal ==
    /\ ModalMounted
    /\ browser' = [browser EXCEPT !.openFile = NoKey, !.last = "close"]
    /\ UNCHANGED allFiles

\* a step of the browser leaves the rest of the program alone
BrowserOnly == UNCHANGED <<listVars, keysVars, queueVars, viewerVars, homeVars, cacheVars, pageVars>>

NextBrowser ==
    \/ \E c \in CollectionFilters : SetCollectionFilter(c) /\ BrowserOnly
    \/ \E c \in CelebrityFilters : SetCelebrityFilter(c) /\ BrowserOnly
    \/ \E s \in SortModes : SetSortBy(s) /\ BrowserOnly
    \/ \E i \in 1..MaxFiles : OpenCard(i) /\ BrowserOnly
    \/ \E d \in {0 - 1, 1} : ArrowKey(d) /\ BrowserOnly
    \/ CloseModal /\ BrowserOnly

---------------------------------------------------------------------------
(* lib/cache: the thumbnail cache and the page cache as a module, called   *)
(* with any key and value                                                  *)

\* the number of different thumbnails a key may be given
ThumbVersions == 2

\* Map.prototype.get on a missing key
Undefined == [src |-> "undefined"]

\* getPdfPages
getPdfPages(c, k) == IF k \in DOMAIN c THEN c[k] ELSE Undefined

\* getThumbnail
getThumbnail(t, k) == IF k \in DOMAIN t THEN t[k] ELSE Undefined

\* a thumbnail cache that holds the newest entry only
setThumbnail_evicting(t, k, dataUrl) == [x \in {k} |-> dataUrl]

\* setThumbnail: thumbnailCache.set(key, dataUrl)
setThumbnail(t, k, dataUrl) == [x \in DOMAIN t \cup {k} |-> IF x = k THEN dataUrl ELSE t[x]]

\* the page lists and the thumbnails the module is called with
PageLists(k) == {RenderedPages(k, n) : n \in 0..MaxPages}
Thumbnails(k) == {Page("thumbnail", k, i) : i \in 1..ThumbVersions}

CacheOp(op, k, value) == [op |-> op, key |-> k, value |-> value]

NoCacheOp == CacheOp("none", NoDoc, Undefined)

InitCache ==
    /\ thumbnails = <<>>
    /\ cacheOp = NoCacheOp

\* a setPdfPages that forgets the thumbnail of the key
SetPdfPages_dropsThumbnail(k, pages) ==
    /\ cache' = setPdfPages(cache, k, pages)
    /\ thumbnails' = [x \in DOMAIN thumbnails \ {k} |-> thumbnails[x]]
    /\ cacheOp' = CacheOp("setPdfPages", k, pages)

\* a call of setPdfPages
SetPdfPages(k, pages) ==
    /\ cache' = setPdfPages(cache, k, pages)
    /\ cacheOp' = CacheOp("setPdfPages", k, pages)
    /\ UNCHANGED thumbnails

\* a call of setThumbnail
SetThumbnail(k, dataUrl) ==
    /\ thumbnails' = setThumbnail(thumbnails, k, dataUrl)
    /\ cacheOp' = CacheOp("setThumbnail", k, dataUrl)
    /\ UNCHANGED cache

\* a call of getPdfPages
GetPdfPages(k) ==
    /\ cacheOp' = CacheOp("getPdfPages", k, getPdfPages(cache, k))
    /\ UNCHANGED <<cache, thumbnails>>

\* a call of getThumbnail
GetThumbnail(k) ==
    /\ cacheOp' = CacheOp("getThumbnail", k, getThumbnail(thumbnails, k))
    /\ UNCHANGED <<cache, thumbnails>>

\* a call of the module leaves the rest of the program alone
CacheOnly ==
    UNCHANGED <<listVars, keysVars, queueVars, docs, prefetchingSet, jobs, view, ev, homeVars, navVars,
                pageVars>>

NextCache ==
    \/ \E k \in Docs : \E pages \in PageLists(k) : SetPdfPages(k, pages) /\ CacheOnly
    \/ \E k \in Docs : \E dataUrl \in Thumbnails(k) : SetThumbnail(k, dataUrl) /\ CacheOnly
    \/ \E k \in Docs : GetPdfPages(k) /\ CacheOnly
    \/ \E k \in Docs : GetThumbnail(k) /\ CacheOnly

---------------------------------------------------------------------------
(* The file page: app/file/[...path]/page.tsx                              *)

\* the key presses the model follows after a page is opened
MaxPresses == 2

\* the numbers of the documents of the model: a gap at 3, and the last
\* document of the first collection with its successor
FileNumbers == {1, 2, 4, 3158, 3159}

IdWidth == 8
SubfolderWidth == 4
SubfolderSize == 1000
Vol1Last == 3158
Vol2Last == 3857
Vol3Last == 5704

\* Number.prototype.toString of a natural number
RECURSIVE toString(_)
toString(n) ==
    LET last == CHOOSE c \in Digits : DigitVal[c] = n % 10
    IN IF n < 10 THEN <<last>> ELSE toString(n \div 10) \o <<last>>

\* String.prototype.padStart
RECURSIVE padStart(_, _, _)
padStart(str, width, fill) ==
    IF Len(str) >= width THEN str ELSE padStart(<<fill>> \o str, width, fill)

\* encodeURIComponent on the characters of a key: the slash is escaped
RECURSIVE encodeURIComponent(_)
encodeURIComponent(str) ==
    IF str = <<>> THEN <<>>
    ELSE IF Head(str) = "/" THEN <<"%", "2", "F">> \o encodeURIComponent(Tail(str))
    ELSE <<Head(str)>> \o encodeURIComponent(Tail(str))

\* decodeURIComponent: an escaped slash becomes a slash
RECURSIVE decodeURIComponent(_)
decodeURIComponent(str) ==
    IF str = <<>> THEN <<>>
    ELSE IF Len(str) >= 3 /\ SubSeq(str, 1, 3) = <<"%", "2", "F">>
    THEN <<"/">> \o decodeURIComponent(SubSeq(str, 4, Len(str)))
    ELSE <<Head(str)>> \o decodeURIComponent(Tail(str))

\* Array.prototype.join with a slash
RECURSIVE JoinPath(_)
JoinPath(segments) ==
    IF segments = <<>> THEN <<>>
    ELSE IF Len(segments) = 1 THEN segments[1]
    ELSE segments[1] \o <<"/">> \o JoinPath(Tail(segments))

\* the digits captured by EFTA(\d+) in a string that matches at position i
MatchDigits(str, i) == SubSeq(str, i + 4, DigitsEnd(str, i + 4))

\* getAdjacentFileId: NoKey stands for null
getAdjacentFileId(currentId, offset) ==
    LET i == MatchEFTA(currentId)
        num == ParseDigits(MatchDigits(currentId, i)) + offset
    IN IF i = 0 THEN NoKey
       ELSE IF num < 1 THEN NoKey
       ELSE EFTA \o padStart(toString(num), IdWidth, "0")

\* Math.ceil(num / 1000)
Subfolder(num) == (num + SubfolderSize - 1) \div SubfolderSize

Vol(n) == <<"V", "O", "L", "0", "0", "0", "0">> \o toString(n)

\* getFilePath
getFilePath(fileId) ==
    LET i == MatchEFTA(fileId)
        num == ParseDigits(MatchDigits(fileId, i))
        vol == IF num <= Vol1Last THEN Vol(1)
               ELSE IF num <= Vol2Last THEN Vol(2)
               ELSE IF num <= Vol3Last THEN Vol(3)
               ELSE Vol(4)
        subfolder == padStart(toString(Subfolder(num)), SubfolderWidth, "0")
    IN IF i = 0 THEN fileId
       ELSE vol \o <<"/", "I", "M", "A", "G", "E", "S", "/">> \o subfolder \o <<"/">>
                \o fileId \o PdfSuffix

\* the key the page's own path scheme gives document number n
FileKey(n) == getFilePath(EFTA \o padStart(toString(n), IdWidth, "0"))

\* the page a route shows: its parameter, and the event that led to it
Route(path, presses, last) == [path |-> path, presses |-> presses, last |-> last]

\* the route /file/<encodeURIComponent(key)>
RouteTo(key, presses, last) == Route(<<encodeURIComponent(key)>>, presses, last)

NoFilePage == Route(<<>>, 0, "none")

\* FilePage: filePath, fileId, prevId and nextId of a page
FilePath(fp) == decodeURIComponent(JoinPath(fp.path))
FileId(fp) == getFileId(FilePath(fp))
PrevId(fp) == getAdjacentFileId(FileId(fp), 0 - 1)
NextId(fp) == getAdjacentFileId(FileId(fp), 1)

\* a listing, before the page of a document is opened
InitFilePage ==
    /\ listedDocs \in SUBSET {FileKey(n) : n \in FileNumbers}
    /\ filePage = NoFilePage

\* the link of a document of the listing is followed
OpenFile(key) ==
    /\ filePage' = RouteTo(key, 0, "open")
    /\ UNCHANGED listedDocs

\* handleKeyDown, ArrowLeft
ArrowLeft ==
    /\ filePage.presses < MaxPresses
    /\ PrevId(filePage) # NoKey
    /\ filePage' = RouteTo(getFilePath(PrevId(filePage)), filePage.presses + 1, "ArrowLeft")
    /\ UNCHANGED listedDocs

\* handleKeyDown, ArrowRight
ArrowRight ==
    /\ filePage.presses < MaxPresses
    /\ NextId(filePage) # NoKey
    /\ filePage' = RouteTo(getFilePath(NextId(filePage)), filePage.presses + 1, "ArrowRight")
    /\ UNCHANGED listedDocs

FilePageOnly == UNCHANGED <<listVars, keysVars, queueVars, viewerVars, homeVars, navVars, cacheVars>>

NextFilePage ==
    \/ \E key \in listedDocs : OpenFile(key) /\ FilePageOnly
    \/ ArrowLeft /\ FilePageOnly
    \/ ArrowRight /\ FilePageOnly

---------------------------------------------------------------------------
(* POST /api/files-by-keys (src/worker/index.ts): the handler starts one   *)
(* head lookup per requested key, all at once, and each lookup pushes its  *)
(* object onto files when it resolves; the response is built when all have *)
(* resolved.  A file is identified by its key, as in the listing model.    *)

\* the longest array of keys a request carries
MaxKeys == 3

KeyLists == UNION {[1..n -> AllKeys] : n \in 0..MaxKeys}

\* the parsed body: with a keys array, or without one
Bodies ==
    {[has |-> FALSE, keys |-> <<>>]} \cup {[has |-> TRUE, keys |-> s] : s \in KeyLists}

\* body.keys || []
BodyKeys(body) == IF body.has THEN body.keys ELSE <<>>

NoLookup ==
    [pc |-> "idle", keys |-> <<>>, pending |-> {}, files |-> <<>>,
     resp |-> [status |-> "none", files |-> <<>>, totalReturned |-> 0]]

InitByKeys == lookup = NoLookup

\* x put into a sorted list behind every element that does not come after it
RECURSIVE InsertByKey(_, _)
InsertByKey(x, s) ==
    IF s = <<>> THEN <<x>>
    ELSE IF localeCompare(Head(s), x) > 0 THEN <<x>> \o s
    ELSE <<Head(s)>> \o InsertByKey(x, Tail(s))

\* a response that keeps the order in which the lookups completed
SortByKey_unsorted(fs) == fs

\* files.sort((a, b) => a.key.localeCompare(b.key)): the sort is stable
RECURSIVE SortByKey(_)
SortByKey(fs) ==
    IF fs = <<>> THEN <<>>
    ELSE InsertByKey(fs[Len(fs)], SortByKey(SubSeq(fs, 1, Len(fs) - 1)))

\* the request arrives: keys.map starts every head lookup (lines 23-31)
KeysStart(body) ==
    /\ lookup.pc # "wait"
    /\ lookup' = [NoLookup EXCEPT !.pc = "wait",
                                  !.keys = BodyKeys(body),
                                  !.pending = 1..Len(BodyKeys(body))]

\* the head lookup of keys[i] resolves, with the object or with null
HeadResolve(i) ==
    /\ lookup.pc = "wait"
    /\ i \in lookup.pending
    /\ lookup' = [lookup EXCEPT
                    !.pending = @ \ {i},
                    !.files = IF lookup.keys[i] \in bucket
                              THEN Append(@, lookup.keys[i]) ELSE @]

\* the head lookup of keys[i] rejects: Promise.all rejects, and the handler,
\* which has no try/catch, answers nothing of its own
HeadReject(i) ==
    /\ lookup.pc = "wait"
    /\ i \in lookup.pending
    /\ lookup' = [lookup EXCEPT
                    !.pc = "failed",
                    !.pending = {},
                    !.resp = [status |-> "error", files |-> <<>>, totalReturned |-> 0]]

\* Promise.all has resolved: sort and answer (lines 42-58)
KeysRespond ==
    /\ lookup.pc = "wait"
    /\ lookup.pending = {}
    /\ lookup' = [lookup EXCEPT
                    !.pc = "done",
                    !.resp = [status |-> "ok",
                              files |-> SortByKey(lookup.files),
                              totalReturned |-> Len(SortByKey(lookup.files))]]

\* a step of the handler leaves the listing and the browser side alone
ByKeysOnly ==
    UNCHANGED <<listVars, queueVars, viewerVars, homeVars, navVars, cacheVars, pageVars>>

NextByKeys ==
    \/ \E body \in Bodies : KeysStart(body) /\ ByKeysOnly
    \/ \E i \in 1..MaxKeys : HeadResolve(i) /\ ByKeysOnly
    \/ \E i \in 1..MaxKeys : HeadReject(i) /\ ByKeysOnly
    \/ KeysRespond /\ ByKeysOnly

---------------------------------------------------------------------------
(* Specifications *)

\* the parts a specification leaves alone start in one fixed state
ListingParked == bucket = AllKeys /\ req = NoReq /\ resp = NoResp /\ sess = NoSess

ViewerParked ==
    /\ InitViewer
    /\ docs = [k \in Docs |-> PdfDoc(MaxPages)]

HomeParked ==
    /\ home = Mount(AllFilter).home
    /\ filesCache = Mount(AllFilter).filesCache
    /\ fetches = Mount(AllFilter).fetches

BrowserParked == allFiles = <<>> /\ browser = NoBrowser

FilePageParked == listedDocs = {} /\ filePage = NoFilePage

\* each specification runs one part of the program from its initial state
ListingInit == InitListing /\ InitQueue /\ ViewerParked /\ HomeParked /\ BrowserParked /\ InitCache /\ FilePageParked
    /\ InitByKeys

SpecListing == ListingInit /\ [][NextListing]_vars

QueueInit == InitQueue /\ ListingParked /\ ViewerParked /\ HomeParked /\ BrowserParked /\ InitCache /\ FilePageParked
    /\ InitByKeys

\* the files-by-keys endpoint, over every store the listing starts from
SpecByKeys == ListingInit /\ [][NextByKeys]_vars

SpecQueue == QueueInit /\ [][NextQueue]_vars

ViewerInit == InitViewer /\ ListingParked /\ InitQueue /\ HomeParked /\ BrowserParked /\ InitCache /\ FilePageParked
    /\ InitByKeys

SpecViewer == ViewerInit /\ [][NextViewer]_vars

HomeInit == InitHome /\ ListingParked /\ InitQueue /\ ViewerParked /\ BrowserParked /\ InitCache /\ FilePageParked
    /\ InitByKeys

SpecHome == HomeInit /\ [][NextHome]_vars

BrowserInit == InitBrowser /\ ListingParked /\ InitQueue /\ ViewerParked /\ HomeParked /\ InitCache /\ FilePageParked
    /\ InitByKeys

SpecBrowser == BrowserInit /\ [][NextBrowser]_vars

\* the bucket call the handler awaits settles, and the handler goes on
HandlerStep ==
    /\ ListRespond \/ ListFail \/ (\E n \in 1..BucketBatch : ListBatch(n))
    /\ WorkerOnly

\* the worker when every bucket call eventually resolves or rejects
SpecListingLive == SpecListing /\ WF_vars(HandlerStep)

\* the awaits of the prefetch job of key k resolve or one of them rejects
PrefetchSettles(k) ==
    \E j \in AllJobs :
        /\ j.kind = "prefetch"
        /\ j.key = k
        /\ \/ \E e \in BOOLEAN : PrefetchResolve(j, e)
           \/ \E n \in 0..(MaxPages - 1) : PrefetchReject(j, n)
        /\ ViewerOnly

\* the viewer when every fetch, page render and image load of a prefetch
\* eventually resolves or rejects
SpecViewerLive == SpecViewer /\ \A k \in Docs : WF_vars(PrefetchSettles(k))

CacheInit ==
    /\ InitCache /\ ListingParked /\ InitQueue /\ ViewerParked /\ HomeParked
    /\ BrowserParked /\ FilePageParked /\ InitByKeys

SpecCache == CacheInit /\ [][NextCache]_vars

FilePageInit ==
    /\ InitFilePage /\ ListingParked /\ InitQueue /\ ViewerParked /\ HomeParked
    /\ BrowserParked /\ InitCache /\ InitByKeys

SpecFilePage == FilePageInit /\ [][NextFilePage]_vars

---------------------------------------------------------------------------
(* Properties of the listing endpoint *)

\* the keys of the model's universe that end in .pdf in any letter case
QualifyingKeys ==
    { <<"A", "1", ".", "p", "d", "f">>,
      <<"A", "3", ".", "P", "D", "F">>,
      <<"B", "2", ".", "p", "d", "f">>,
      <<"B", "3", ".", "p", "d", "f">> }

\* the qualifying keys of the bucket under a prefix after a position, in key order
QualifyingAfter(prefix, pos) ==
    InKeyOrder({k \in bucket \cap QualifyingKeys :
                  startsWith(k, prefix) /\ (pos = NoKey \/ KeyLess(pos, k))})

\* C1: the pages of a session (each request resuming with the cursor the
\* previous response returned, same prefix), concatenated, are the first
\* qualifying keys that follow the session's starting position: no key
\* twice, no qualifying key skipped.
C1_ResumeNoDupNoGap ==
    /\ sess.got = Take(QualifyingAfter(sess.prefix, sess.start), Len(sess.got))
    /\ \A i, j \in 1..Len(sess.got) : sess.got[i] = sess.got[j] => i = j

\* a session of three pages that stepped over a non-qualifying key
C1_Witness ==
    /\ req.pc = "done"
    /\ sess.pages >= 3
    /\ Len(resp.files) >= 1
    /\ Len(sess.got) >= 3
    /\ \E k \in bucket \ QualifyingKeys :
          KeyLess(sess.got[1], k) /\ KeyLess(k, sess.got[Len(sess.got)])

\* C2: when more than limit qualifying keys remain after the cursor, the
\* response holds exactly limit items (1 <= limit <= 1000).
C2_ExactlyLimit ==
    (/\ req.pc = "done"
     /\ ~req.limit.nan
     /\ req.limit.v >= 1
     /\ req.limit.v <= LimitCap
     /\ Len(QualifyingAfter(req.prefix, req.startAfter)) > req.limit.v)
    => Len(resp.files) = req.limit.v

\* such a response, collected over several bucket calls from a given cursor
C2_Witness ==
    /\ req.pc = "done"
    /\ ~req.limit.nan
    /\ req.limit.v >= 2
    /\ req.startAfter # NoKey
    /\ Len(QualifyingAfter(req.prefix, req.startAfter)) > req.limit.v
    /\ req.calls >= 2
    /\ Len(resp.files) = req.limit.v

\* the position after which a response leaves off
LeftOff == IF Len(resp.files) > 0 THEN resp.files[Len(resp.files)] ELSE req.startAfter

\* C3: a response holds only qualifying keys, and holds fewer than limit
\* of them only when no qualifying key follows the last one returned.
C3_OnlyQualifyingUnlessExhausted ==
    req.pc = "done" =>
        /\ SeqRange(resp.files) \subseteq QualifyingKeys
        /\ (~req.limit.nan /\ Len(resp.files) < req.limit.v)
               => QualifyingAfter(req.prefix, LeftOff) = <<>>

\* a short response after a bucket call that yielded no qualifying key
C3_Witness ==
    /\ req.pc = "done"
    /\ ~req.limit.nan
    /\ req.limit.v <= MaxLimit
    /\ Len(resp.files) >= 1
    /\ Len(resp.files) < req.limit.v
    /\ req.barren >= 1
    /\ \E k \in SeqRange(resp.files) : ~endsWith(k, PdfSuffix)

\* C12 as stated: a truncated response has a last item and its cursor is
\* that item's key; truncated says that the buffer exceeded limit or that
\* the bucket had more when the loop stopped.
C12_CursorIsLastKey ==
    req.pc = "done" =>
        /\ resp.truncated <=> (JsGt(Len(req.files), req.limit) \/ req.hasMoreInBucket)
        /\ resp.truncated =>
              /\ Len(resp.files) > 0
              /\ resp.cursor = resp.files[Len(resp.files)]

\* C13 as stated: a response is truncated exactly when it carries a cursor,
\* and a truncated response has a qualifying key after the position it
\* leaves off at.
C13_TruncatedIffCursor ==
    req.pc = "done" =>
        /\ resp.truncated <=> resp.cursor # NoKey
        /\ resp.truncated => QualifyingAfter(req.prefix, LeftOff) # <<>>

\* C14 as stated: the limit the handler uses lies in 1..1000 and a response
\* never holds more items than that.
C14_LimitClamped ==
    req.pc # "idle" =>
        /\ ~req.limit.nan
        /\ req.limit.v >= 1
        /\ req.limit.v <= LimitCap
        /\ req.pc = "done" => Len(resp.files) <= req.limit.v

\* C15: a request whose bucket call fails is answered by an error that
\* carries no item, whatever the earlier batches of the request collected,
\* and adds nothing to the pages of the session.
C15_AllOrNothing ==
    req.pc = "failed" =>
        /\ resp.status = "error"
        /\ resp.files = <<>>
        /\ resp.totalReturned = 0
        /\ resp.cursor = NoKey

\* a bucket call fails after earlier batches of the request yielded items
C15_Witness ==
    /\ req.pc = "failed"
    /\ req.calls >= 1
    /\ Len(req.files) >= 1
    /\ resp.status = "error"

\* s is strictly increasing in the bucket's key order
Increasing(s) == \A i, j \in 1..Len(s) : i < j => KeyLess(s[i], s[j])

\* C16: the items of a page, and of the pages of a session put end to end,
\* are in strictly increasing key order.
C16_KeyOrder ==
    /\ Increasing(resp.files)
    /\ Increasing(sess.got)
    /\ req.pc = "loop" => Increasing(req.files)

\* a second page of a session whose buffer was filled by several bucket calls
C16_Witness ==
    /\ req.pc = "done"
    /\ sess.pages >= 2
    /\ req.calls >= 2
    /\ Len(resp.files) >= 2
    /\ Len(sess.got) > Len(resp.files)

\* C34: a request makes its bucket calls one after the other and no more
\* of them than the bucket has keys, and it ends; a truncated response to a
\* request with a limit of at least 1 carries a cursor after which fewer
\* qualifying keys remain than after the cursor of the request, and at
\* least one, so that a session has at most one page more than there are
\* qualifying keys after its start, the last of them not truncated.
C34_Terminates ==
    /\ [][/\ req'.calls \in {0, req.calls, req.calls + 1}
          /\ req'.pc = "loop" => req'.calls <= Cardinality(bucket)
          /\ sess'.pages <= Len(QualifyingAfter(sess'.prefix, sess'.start)) + 1
          /\ (/\ req.pc = "loop" /\ req'.pc = "done"
              /\ resp'.truncated /\ JsLeq(1, req.limit))
             => /\ resp'.cursor # NoKey
                /\ QualifyingAfter(req.prefix, resp'.cursor) # <<>>
                /\ Len(QualifyingAfter(req.prefix, resp'.cursor))
                     < Len(QualifyingAfter(req.prefix, req.startAfter))
          /\ (/\ req.pc = "loop" /\ req'.pc = "done" /\ JsLeq(1, req.limit)
              /\ QualifyingAfter(req.prefix, req.startAfter) = <<>>)
             => ~resp'.truncated]_vars
    /\ (req.pc = "loop") ~> (req.pc # "loop")

\* the third request of a session, answered after two bucket calls, has
\* ended the session with a response that is not truncated
C34_Witness ==
    /\ req.pc = "done"
    /\ ~resp.truncated
    /\ sess.pages >= 3
    /\ req.calls >= 2
    /\ sess.got = QualifyingAfter(sess.prefix, sess.start)

\* C37: the response of the files-by-keys endpoint holds the requested
\* keys that the store holds and no others, one entry per request of such a
\* key, in ascending key order (by localeCompare, and by the order of the
\* store's listing) whatever the order in which the lookups completed, and
\* its totalReturned is the number of its files.
C37_ByKeys ==
    lookup.pc = "done" =>
        LET fs == lookup.resp.files
        IN /\ SeqRange(fs) = SeqRange(lookup.keys) \cap bucket
           /\ Len(fs) = Cardinality({i \in 1..Len(lookup.keys) : lookup.keys[i] \in bucket})
           /\ \A i, j \in 1..Len(fs) :
                 i < j => /\ localeCompare(fs[i], fs[j]) <= 0
                          /\ fs[i] = fs[j] \/ KeyLess(fs[i], fs[j])
           /\ lookup.resp.totalReturned = Len(fs)

\* three keys were requested, one of them missing from the store, and the
\* lookups of the other two completed in descending key order
C37_Witness ==
    /\ lookup.pc = "done"
    /\ Len(lookup.keys) = MaxKeys
    /\ \E i \in 1..Len(lookup.keys) : lookup.keys[i] \notin bucket
    /\ Len(lookup.resp.files) >= 2
    /\ lookup.files # lookup.resp.files

---------------------------------------------------------------------------
(* Properties of the listing client *)

\* C11: every listing request in flight that carries a cursor carries the
\* prefix of the request whose response the cursor came from.
C11_CursorKeepsPrefix ==
    \A r \in BagToSet(fetches) :
        r.cursor # NoCursor => r.cursor.prefix = r.prefix

\* C31: the step in which a listing request fails calls fetchFiles for no
\* new request: a request after a failure comes with a later step of the
\* user (scroll, filter change).
C31_NoRetryAfterFailure ==
    home.last = "failure" => home.started = 0

\* C35: filesCache.files holds no file twice.
C35_NoDuplicateKeys ==
    filesCache.repeated = {}

\* C36: when no listing request is in flight, every file shown under a
\* collection filter other than All comes from a listing under that
\* filter's prefix.
C36_ShownMatchFilter ==
    fetches = EmptyBag =>
        \A b \in home.files : home.filter = AllFilter \/ b.prefix = home.filter

---------------------------------------------------------------------------
(* Properties of LoadQueue *)

\* C5: the tasks that have started and not yet settled never number more
\* than maxConcurrent, and the counter running counts exactly them.
C5_AtMostMaxConcurrent ==
    /\ Cardinality(Active(tasks)) <= maxConcurrent
    /\ running = Cardinality(Active(tasks))

\* the limit is reached with a task waiting, after some task has settled
C5_Witness ==
    /\ Cardinality(Active(tasks)) = maxConcurrent
    /\ queue # <<>>
    /\ \E i \in TaskIds : tasks.state[i] = "failed"
    /\ \E i \in TaskIds : tasks.state[i] = "ok"

\* the tasks handed to add() so far, in the order of the calls
Added == SelectSeq([i \in TaskIds |-> i], LAMBDA i : tasks.state[i] # "new")

\* C17: tasks start in the order they were added (the started tasks followed
\* by the waiting ones are the added ones, in order); a task waits only
\* while maxConcurrent tasks run; and the step in which a running task
\* settles, by success or by failure, starts the head of the queue.
C17_FifoAndImmediate ==
    /\ [](/\ tasks.started \o queue = Added
          /\ queue # <<>> => running = maxConcurrent)
    /\ [][\A i \in TaskIds :
            (/\ tasks.state[i] = "started"
             /\ tasks.state'[i] \in {"ok", "failed"}
             /\ queue # <<>>)
            => /\ tasks.state'[Head(queue)] = "started"
               /\ queue' = Tail(queue)
               /\ running' = maxConcurrent]_vars

\* a task that was queued runs in the slot of a task that failed, while a
\* task started before the failed one is still running
C17_Witness ==
    /\ Len(tasks.started) > maxConcurrent
    /\ \E i, j, k \in TaskIds :
          /\ i < j
          /\ tasks.state[i] = "started"
          /\ tasks.state[j] = "failed"
          /\ tasks.state[k] = "started"
          /\ k > maxConcurrent
    /\ queue # <<>>

---------------------------------------------------------------------------
(* Properties of the document viewer *)

\* the prefetch jobs in flight for key k
PrefetchesOf(k) == CopiesIn(Job("prefetch", k, "pending"), jobs)

\* the part of the bag of jobs in flight that a set of jobs selects
JobsIn(S) == [j \in S |-> jobs[j]]

PrefetchJobs == JobsIn({j \in BagToSet(jobs) : j.kind = "prefetch"})

\* the direct renders in flight whose effect has not been cleaned up
LiveDirects == JobsIn({j \in BagToSet(jobs) : j.kind = "direct" /\ ~j.cancelled})

LiveDirectsOf(k) == JobsIn({j \in BagToSet(LiveDirects) : j.key = k})

\* C4: a key has a prefetch job in flight exactly when it is in the
\* prefetch set, and never more than one, however often prefetchPdf is
\* called for it; a prefetch job starts only for a key that is neither
\* cached nor pending, and a call for a cached or pending key changes
\* neither the cache nor the prefetch set nor the jobs.
C4_PrefetchDedup ==
    /\ [](\A k \in Docs : PrefetchesOf(k) = IF k \in prefetchingSet THEN 1 ELSE 0)
    /\ [][/\ \A k \in Docs :
               PrefetchesOf(k)' > PrefetchesOf(k)
                   => ~Cached(cache, k) /\ k \notin prefetchingSet
          /\ ev'.op = "skipped"
                   => /\ Cached(cache, ev'.key) \/ ev'.key \in prefetchingSet
                      /\ UNCHANGED <<cache, prefetchingSet, jobs>>]_vars

\* a second prefetchPdf call for a key whose first prefetch is still running
C4_Witness ==
    /\ ev.op = "skipped"
    /\ ev.key \in prefetchingSet
    /\ ~Cached(cache, ev.key)
    /\ PrefetchesOf(ev.key) = 1

\* C6 as stated: a setPdfPages write for a key is the only one ever made
\* for that key, so it never finds the key already cached.
C6_OneStorePerKey ==
    [][ev'.op = "stored" => ~Cached(cache, ev'.key)]_vars

\* C6, amended: at any time a key has at most one prefetch job and at most
\* one direct render that has not been cancelled; the two paths are not
\* deduplicated against each other, and a write for a key that is already
\* cached stores the page list the cache already holds.
C6_OnePerPathSameList ==
    /\ [](\A k \in Docs :
             /\ PrefetchesOf(k) <= 1
             /\ BagCardinality(LiveDirectsOf(k)) <= 1)
    /\ [][(ev'.op = "stored" /\ Cached(cache, ev'.key)) => cache' = cache]_vars

\* the prefetch of the open document stores after its direct render did
C6_Witness ==
    /\ ev.op = "stored"
    /\ ev.kind = "prefetch"
    /\ view.openFile = ev.key
    /\ ~view.loading
    /\ ~view.error
    /\ view.pages = cache[ev.key]
    /\ LiveDirects = EmptyBag

C8_FailureLeavesNoEntry ==
    [][(ev'.op = "failed" \/ ev'.imgError)
          => ~Cached(cache', ev'.key) /\ ev'.key \notin prefetchingSet']_vars

\* C8, amended: a job that fails by a rejected await (fetch, decode or page
\* render) writes nothing to the cache, whatever it had rendered, and a
\* failed prefetch leaves its key out of the prefetch set with no prefetch
\* job for it; a page image that fails to load does not fail the prefetch,
\* which stores the list of image URLs all the same.
C8_FailureWritesNothing ==
    [][/\ ev'.op = "failed" => cache' = cache
       /\ \A k \in Docs :
             (ev'.op = "failed" /\ ev'.kind = "prefetch" /\ ev'.key = k)
                => k \notin prefetchingSet' /\ PrefetchesOf(k)' = 0
       /\ ev'.imgError
             => /\ ev'.key \notin prefetchingSet'
                /\ cache'[ev'.key] = loadPagesFromImages(ev'.key, ManifestPages(ev'.key))]_vars

\* a prefetch has failed and its key can be prefetched again
C8_Witness ==
    /\ ev.op = "failed"
    /\ ev.kind = "prefetch"
    /\ ~PrefetchSkips(cache, prefetchingSet, ev.key)

\* C9 as stated: a step of a direct render whose effect has been cleaned up
\* changes nothing of what the modal shows.
C9_StaleRenderShowsNothing ==
    [][ev'.stale => /\ view'.pages = view.pages
                    /\ view'.loading = view.loading
                    /\ view'.error = view.error]_vars

C18_SetIsInFlight ==
    /\ [](prefetchingSet = {j.key : j \in BagToSet(PrefetchJobs)})
    /\ [][/\ \A k \in Docs :
               PrefetchesOf(k)' > PrefetchesOf(k)
                   => k \notin prefetchingSet /\ k \in prefetchingSet'
          /\ (ev'.kind = "prefetch" /\ ev'.op \in {"stored", "failed", "empty"})
                   => /\ ev'.key \in prefetchingSet
                      /\ prefetchingSet' = prefetchingSet \ {ev'.key}]_vars

\* a prefetch in pre-rendered-image mode has returned while the prefetch of
\* another key is still in flight
C18_Witness ==
    /\ ev.op = "stored"
    /\ ev.kind = "prefetch"
    /\ ImageMode(ev.key)
    /\ ev.key \notin prefetchingSet
    /\ \E k \in prefetchingSet : k # ev.key /\ PrefetchesOf(k) = 1

\* C19: the step in which a prefetch job fails leaves the modal as it is
\* (error, loading, pages and all the rest of its state), writes nothing to
\* the cache, and starts no job: the jobs in flight after the step are those
\* before it less the failed one.
C19_PrefetchFailsSilently ==
    [][(ev'.op = "failed" /\ ev'.kind = "prefetch")
          => /\ view' = view
             /\ cache' = cache
             /\ \E j \in BagToSet(jobs) :
                   /\ j.kind = "prefetch"
                   /\ j.key = ev'.key
                   /\ jobs' = Remove(j)]_vars

\* the prefetch of the document after the open one has failed while the
\* modal shows the open document without an error
C19_Witness ==
    /\ ev.op = "failed"
    /\ ev.kind = "prefetch"
    /\ view.openFile # NoDoc
    /\ view.openFile # ev.key
    /\ ~view.error
    /\ ~view.loading
    /\ view.pages # <<>>

\* C20: the step in which the direct render of the open document fails, its
\* effect not cleaned up, leaves the modal with the error set and loading
\* false, and leaves the cache as it was.
C20_DirectFailureReported ==
    [][(ev'.op = "failed" /\ ev'.kind = "direct" /\ ~ev'.stale)
          => /\ view'.openFile = ev'.key
             /\ view'.error
             /\ ~view'.loading
             /\ cache' = cache]_vars

\* the direct render of the open document has failed after its first page
\* was shown, and the key is not cached
C20_Witness ==
    /\ ev.op = "failed"
    /\ ev.kind = "direct"
    /\ ~ev.stale
    /\ view.openFile = ev.key
    /\ view.error
    /\ ~view.loading
    /\ Len(view.pages) = 1
    /\ ~Cached(cache, ev.key)

\* the complete page list of document k: the URLs of its pre-rendered
\* pages, or the data URLs of all its pages rendered in the browser
CompletePages(k) ==
    IF ImageMode(k)
    THEN loadPagesFromImages(k, ManifestPages(k))
    ELSE RenderedPages(k, NumPagesOf(k))

\* C21: every entry of the page cache is the complete, non-empty page list
\* of its document; the cache changes only in the step that ends a job with
\* a store, and a job that fails or is abandoned leaves the cache as it was,
\* whatever it had rendered.
C21_CacheEntriesComplete ==
    /\ [](\A k \in DOMAIN cache : cache[k] = CompletePages(k) /\ cache[k] # <<>>)
    /\ [][/\ cache' # cache
               => /\ ev'.op = "stored"
                  /\ BagCardinality(jobs') = BagCardinality(jobs) - 1
                  /\ DOMAIN cache' = DOMAIN cache \cup {ev'.key}
          /\ ev'.op \in {"failed", "abandoned", "empty"} => cache' = cache]_vars

\* a direct render has failed with a page on show while the cache holds the
\* complete list of another document and nothing for the failed one
C21_Witness ==
    /\ ev.op = "failed"
    /\ ev.kind = "direct"
    /\ view.pages # <<>>
    /\ Len(view.pages) < NumPagesOf(ev.key)
    /\ ~Cached(cache, ev.key)
    /\ \E k \in DOMAIN cache : Len(cache[k]) = MaxPages

\* the keys for which the manifest reports pages > 0
Prerendered == {k \in Docs : ManifestPages(k) > 0}

\* the URLs page 1 .. page n of key k, in page order
ImageUrls(k, n) == [i \in 1..n |-> getPageImageUrl(k, i)]

\* C22: for a key whose manifest entry reports n > 0 pages, a direct render
\* waits for the image list only and never for the document or a page of it;
\* the step that ends a direct render or a prefetch of the key stores the n
\* URLs of its pages in page order, the direct render shows the same list,
\* and no job of the key ends in any other way than by storing or by being
\* abandoned; so the cache never holds anything else for the key.
C22_ManifestMeansImages ==
    /\ [](\A k \in Prerendered :
             /\ Cached(cache, k) => cache[k] = ImageUrls(k, ManifestPages(k))
             /\ \A j \in BagToSet(jobs) :
                   (j.key = k /\ j.kind = "direct")
                       => j.pc = "images" /\ j.rendered = 0)
    /\ [][\A k \in Prerendered :
            (ev'.key = k /\ ev'.op # "skipped")
               => /\ ev'.op \in {"stored", "abandoned"}
                  /\ ev'.op = "stored"
                        => cache'[k] = ImageUrls(k, ManifestPages(k))
                  /\ (ev'.op = "stored" /\ ev'.kind = "direct")
                        => /\ view'.pages = ImageUrls(k, ManifestPages(k))
                           /\ ~view'.loading
                  /\ ev'.op = "abandoned" => cache' = cache]_vars

\* the direct render of a pre-rendered document has ended: its URLs are on
\* show and in the cache
C22_Witness ==
    /\ ev.op = "stored"
    /\ ev.kind = "direct"
    /\ ev.key \in Prerendered
    /\ view.openFile = ev.key
    /\ Len(view.pages) = ManifestPages(ev.key)
    /\ \A i \in 1..Len(view.pages) : view.pages[i] = getPageImageUrl(ev.key, i)
    /\ cache[ev.key] = view.pages

\* C33 as stated: the step that takes a key out of the prefetch set is the
\* end of its prefetch job, which either failed and left the cache as it
\* was, or has stored pages for the key.
C33_EndsStoredOrFailed ==
    [][\A k \in prefetchingSet \ prefetchingSet' :
          /\ ev'.kind = "prefetch" /\ ev'.key = k
          /\ \/ ev'.op = "failed" /\ cache' = cache
             \/ ev'.op = "stored" /\ Cached(cache', k)]_vars

\* C33, amended: a key enters the prefetch set only while it is neither
\* cached nor in the set; the step that takes it out is the end of its
\* prefetch job, which failed and left the cache as it was, or stored pages
\* for the key, or found a document without pages and left the cache as it
\* was; and a key in the prefetch set eventually leaves it.
C33_PrefetchMachine ==
    /\ [][/\ \A k \in prefetchingSet' \ prefetchingSet : ~Cached(cache, k)
          /\ \A k \in prefetchingSet \ prefetchingSet' :
                /\ ev'.kind = "prefetch" /\ ev'.key = k
                /\ \/ ev'.op = "failed" /\ cache' = cache
                   \/ ev'.op = "stored" /\ Cached(cache', k) /\ cache'[k] # <<>>
                   \/ ev'.op = "empty" /\ NumPagesOf(k) = 0 /\ cache' = cache]_vars
    /\ \A k \in Docs : (k \in prefetchingSet) ~> (k \notin prefetchingSet)

\* the prefetch of a document without pages has ended: its key is out of
\* the prefetch set and not cached
C33_Witness ==
    /\ ev.kind = "prefetch"
    /\ ev.op = "empty"
    /\ ev.key \notin prefetchingSet
    /\ ~Cached(cache, ev.key)

\* C38: no entry of the page cache is an empty page list, so a key passes
\* the test of the direct path (cached, and of length > 0) exactly when it
\* passes the test of prefetchPdf (cached).
C38_NoEmptyEntry ==
    /\ \A k \in DOMAIN cache : cache[k] # <<>>
    /\ \A k \in Docs : DirectHit(cache, k) <=> Cached(cache, k)

\* the direct render of a document without pages has run to its end and has
\* stored nothing, while the cache holds the pages of another document
C38_Witness ==
    /\ ev.kind = "direct"
    /\ ev.op = "empty"
    /\ NumPagesOf(ev.key) = 0
    /\ ~Cached(cache, ev.key)
    /\ DOMAIN cache # {}

\* C32: a timeout of the prefetch effect that starts a prefetch job fires
\* only while the open document is not loading.
C32_PrefetchAfterLoad ==
    [][(/\ view.timers # <<>>
        /\ view'.timers = Tail(view.timers)
        /\ view'.openFile = view.openFile
        /\ prefetchingSet' # prefetchingSet)
       => ~view.loading]_vars

---------------------------------------------------------------------------
(* Properties of the navigation *)

\* the keys of a list of files, in order
KeysOf(fs) == [i \in 1..Len(fs) |-> fs[i].key]

\* the number a key's identifier EFTA<digits> stands for
IdNumber(key) == ParseDigits(SubSeq(getFileId(key), 5, Len(getFileId(key))))

\* C23: in the list of FilesProvider and in the view of the browser, a step
\* forward from a key followed by a step backward returns to the key, and a
\* step backward followed by a step forward does too, whenever the first
\* step leads to a key.
C23_AdjacentInverse ==
    LET sorted == SortedFiles(allFiles)
        shown == NavView
    IN \A k \in NavKeys, d \in {0 - 1, 1} :
        /\ LET n == getAdjacentFile(sorted, k, d)
           IN n # NoKey => getAdjacentFile(sorted, n, 0 - d) = k
        /\ LET n == getAdjacentFile(shown, k, d)
           IN n # NoKey => getAdjacentFile(shown, n, 0 - d) = k
        /\ LET n == Handle(shown, k, d)
           IN n # k => Handle(shown, n, 0 - d) = k

\* Previous has moved the modal from the last file of a full view to the
\* one before it, from which Next leads back
C23_Witness ==
    /\ browser.last = "prev"
    /\ Len(NavView) = MaxFiles
    /\ SelectedFileIndex(NavView, browser.openFile) = Len(NavView) - 2
    /\ Handle(NavView, browser.openFile, 1) = NavView[Len(NavView)].key

\* the key at position i (from 1) of a list, NoKey outside the list
KeyAt(fs, i) == IF i \in 1..Len(fs) THEN fs[i].key ELSE NoKey

\* the position (from 1) of a key in a list of files, 0 if it is not there
PositionOf(fs, k) == IF \E i \in 1..Len(fs) : fs[i].key = k
                     THEN CHOOSE i \in 1..Len(fs) : fs[i].key = k
                     ELSE 0

\* C24: getAdjacentFile gives null for a key that is not in the list, for
\* offset -1 at the first position and for offset +1 at the last, and the
\* key at the neighbouring position otherwise; the browser offers Previous
\* and Next exactly where there is such a neighbour in its view, and an
\* arrow key leaves the open file alone where there is none and opens the
\* neighbour where there is one.
C24_NoWraparound ==
    /\ [](LET sorted == SortedFiles(allFiles)
               shown == NavView
           IN \A k \in NavKeys, d \in {0 - 1, 1} :
                /\ getAdjacentFile(sorted, k, d) =
                      IF PositionOf(sorted, k) = 0 THEN NoKey
                      ELSE KeyAt(sorted, PositionOf(sorted, k) + d)
                /\ HasPrev(shown, k) <=>
                      (PositionOf(shown, k) # 0 /\ KeyAt(shown, PositionOf(shown, k) - 1) # NoKey)
                /\ HasNext(shown, k) <=>
                      (PositionOf(shown, k) # 0 /\ KeyAt(shown, PositionOf(shown, k) + 1) # NoKey))
    /\ [][browser'.last \in {"prev", "next"}
            => LET n == getAdjacentFile(NavView, browser.openFile,
                                        IF browser'.last = "prev" THEN 0 - 1 ELSE 1)
               IN browser'.openFile = IF n = NoKey THEN browser.openFile ELSE n]_vars

\* ArrowRight on the last file of a view of several files has left it open
C24_Witness ==
    /\ browser.last = "next"
    /\ Len(NavView) >= 2
    /\ browser.openFile = NavView[Len(NavView)].key
    /\ ~HasNext(NavView, browser.openFile)
    /\ HasPrev(NavView, browser.openFile)

\* C25: under the name ordering, a document whose identifier is the smaller
\* number comes before one whose identifier is the larger number, in the
\* list of FilesProvider and in the view of the browser.
C25_NumericOrder ==
    LET sorted == SortedFiles(allFiles)
        shown == NavView
    IN /\ \A i, j \in 1..Len(sorted) :
             IdNumber(sorted[i].key) < IdNumber(sorted[j].key) => i < j
       /\ browser.sortBy = "name"
             => \A i, j \in 1..Len(shown) :
                   IdNumber(shown[i].key) < IdNumber(shown[j].key) => i < j

\* the file lists that hold the same files as fs, in any order
Reorderings(fs) ==
    {s \in DistinctLists(Len(fs)) : Len(s) = Len(fs) /\ SeqRange(s) = SeqRange(fs)}

\* C26: the ordered view is the same for every order in which the layout
\* may hand the same set of files to FilesProvider.
C26_OrderIndependent ==
    LET shown == KeysOf(NavView)
    IN \A other \in Reorderings(allFiles) :
          KeysOf(FilteredFiles(SortedFiles(other), browser)) = shown

\* the keys a collection filter and a celebrity filter select, as a set
Selected(collectionFilter, celebrityFilter) ==
    {k \in SeqRange(KeysOf(allFiles)) :
        /\ collectionFilter = All \/ startsWith(k, collectionFilter)
        /\ celebrityFilter = "All"
             \/ \E c \in CELEBRITY_DATA :
                   /\ c.name = celebrityFilter
                   /\ \E a \in c.appearances : a.file = k /\ a.confidence >= MinConfidence}

\* C27: the view holds, once each, exactly the files whose key starts with
\* the selected collection, if one is selected, and is among the selected
\* celebrity's files, if one is selected; when there is no such file the
\* view is empty, no file is selected, the modal is not shown, and no key
\* has a previous or a next file.
C27_FiltersIntersect ==
    LET shown == NavView
        wanted == Selected(browser.collectionFilter, browser.celebrityFilter)
    IN /\ SeqRange(KeysOf(shown)) = wanted
       /\ Len(shown) = Cardinality(wanted)
       /\ wanted = {}
             => /\ shown = <<>>
                /\ SelectedFileIndex(shown, browser.openFile) = 0 - 1
                /\ ~ModalMounted
                /\ \A k \in NavKeys :
                      /\ ~HasPrev(shown, k) /\ ~HasNext(shown, k)
                      /\ \A d \in {0 - 1, 1} : getAdjacentFile(shown, k, d) = NoKey

\* a collection and a celebrity that each select files of the list and
\* together select none, with a file still named as the open one
C27_Witness ==
    /\ NavView = <<>>
    /\ browser.openFile # NoKey
    /\ browser.collectionFilter # All
    /\ browser.celebrityFilter # "All"
    /\ Selected(browser.collectionFilter, "All") # {}
    /\ Selected(All, browser.celebrityFilter) # {}

---------------------------------------------------------------------------
(* Properties of lib/cache *)

\* C28: no step takes an entry out of the page cache or out of the
\* thumbnail cache: a key that has an entry before the step has one after it.
C28_NoEviction ==
    [][/\ DOMAIN cache \subseteq DOMAIN cache'
       /\ DOMAIN thumbnails \subseteq DOMAIN thumbnails']_vars

\* every key has pages and a thumbnail, and the last call wrote a thumbnail
\* over an earlier one
C28_Witness ==
    /\ DOMAIN cache = Docs
    /\ DOMAIN thumbnails = Docs
    /\ cacheOp.op = "setThumbnail"
    /\ cacheOp.value = Page("thumbnail", cacheOp.key, ThumbVersions)

\* C29: after setPdfPages(k, p), getPdfPages(k) is p, getPdfPages of every
\* other key is what it was, and so is every thumbnail; after
\* setThumbnail(k, t), getThumbnail(k) is t, every other thumbnail is what
\* it was, and so is every page list; writing a value twice gives the cache
\* that writing it once gives, and of two writes for a key the later one is
\* the one that stays.
C29_WritesAreLocal ==
    /\ [](\A k \in Docs : \A p, q \in PageLists(k) :
             /\ setPdfPages(setPdfPages(cache, k, p), k, p) = setPdfPages(cache, k, p)
             /\ getPdfPages(setPdfPages(setPdfPages(cache, k, p), k, q), k) = q)
    /\ [][/\ cacheOp'.op = "setPdfPages"
               => /\ getPdfPages(cache', cacheOp'.key) = cacheOp'.value
                  /\ \A k \in Docs \ {cacheOp'.key} :
                        getPdfPages(cache', k) = getPdfPages(cache, k)
                  /\ \A k \in Docs :
                        getThumbnail(thumbnails', k) = getThumbnail(thumbnails, k)
          /\ cacheOp'.op = "setThumbnail"
               => /\ getThumbnail(thumbnails', cacheOp'.key) = cacheOp'.value
                  /\ \A k \in Docs \ {cacheOp'.key} :
                        getThumbnail(thumbnails', k) = getThumbnail(thumbnails, k)
                  /\ \A k \in Docs :
                        getPdfPages(cache', k) = getPdfPages(cache, k)]_vars

\* setPdfPages has written a key that has a thumbnail, while another key
\* holds other pages
C29_Witness ==
    /\ cacheOp.op = "setPdfPages"
    /\ cache[cacheOp.key] = cacheOp.value
    /\ cacheOp.key \in DOMAIN thumbnails
    /\ \E k \in DOMAIN cache : k # cacheOp.key /\ cache[k] # <<>>

---------------------------------------------------------------------------
(* Properties of the file page *)

\* the numbers of the documents of the listing
ListedNumbers == {IdNumber(key) : key \in listedDocs}

\* C30: on the page of a document of the listing, the Previous target is
\* null when the listing has no document with a smaller number and the Next
\* target is null when it has none with a larger number, and a target that
\* is not null is the key of a document of the listing.
C30_TargetsAreListed ==
    LET num == IdNumber(FilePath(filePage))
        prevId == PrevId(filePage)
        nextId == NextId(filePage)
    IN FilePath(filePage) \in listedDocs
        => /\ (\A n \in ListedNumbers : n >= num) => prevId = NoKey
           /\ (\A n \in ListedNumbers : n <= num) => nextId = NoKey
           /\ prevId # NoKey => getFilePath(prevId) \in listedDocs
           /\ nextId # NoKey => getFilePath(nextId) \in listedDocs

====
